---- MODULE Spec2Model ----
(***************************************************************************)
(* A model of the SRPK analysis engine (src/srpk_v3_1.py): the Cache Store *)
(* (CacheManager), the Bounded Parser (RobustAnalyzer) and the Code Graph  *)
(* orchestration (EnterpriseSRPKGraph.analyze_project).                    *)
(*                                                                         *)
(* Two specifications share the variables:                                 *)
(*   SpecCache  the cache store driven by arbitrary set / get calls and by *)
(*              corruption of stored files;                                *)
(*   Spec       analyze_project runs over a small project, sequential or   *)
(*              parallel, with the cache store underneath.                 *)
(*                                                                         *)
(* Assumptions of the cache model: file-system calls on the cache          *)
(* directory succeed, values are serializable, two keys never map to the   *)
(* same file name (the truncated SHA-256 of _get_cache_path), and writes   *)
(* made at different times get different modification times.               *)
(***************************************************************************)
EXTENDS Integers, Sequences, FiniteSets, TLC

VARIABLES
    \* ---- CacheManager ----
    store,           \* cache directory: key -> stored file (or NoEntry)
    clock,           \* time.time()
    enabled,         \* CacheManager.enabled
    compression,     \* CacheManager.compression
    max_size_bytes,  \* CacheManager.max_size_mb * 1024 * 1024
    hist,            \* the two most recent cache calls (history, for the properties)
    \* ---- the project on disk and the configuration ----
    disk,            \* path -> [kind, mtime]: what each source file holds
    parallel,        \* analysis.parallel_processing
    \* ---- EnterpriseSRPKGraph ----
    nodes,           \* self.nodes: code_id -> PersistentCodeNode
    edges,           \* self.edges: <<from id, to id>> -> number of edges
    file_registry,   \* self.file_registry: path -> list of code ids
    metrics_history, \* self.metrics_history
    errors,          \* self.analyzer.errors: the ErrorReport log
    state_file,      \* the files of the state path: plain, compressed, backups
    \* ---- one analyze_project call ----
    pc,              \* where the call is: idle, files, deps, save, summary
    todo,            \* files still to analyze (sequential) or to collect (parallel)
    task,            \* path -> the future submitted for it, and abandoned ones
    results,         \* the results dictionary of the call
    outcome,         \* how the last call ended: none, returned, raised
    runs,            \* analyze_project calls made so far
    \* ---- history, for the properties ----
    file_outcome,    \* path -> what happened to the file in the current call
    parse_log,       \* path -> how analyze_file_safe last ended for the file
    miss_units,      \* path -> the nodes the graph held for the file after its last miss
    read_files,      \* paths whose bytes the current call has read
    \* ---- concurrent calls on one CacheManager ----
    cache_dir,       \* whether the cache directory exists
    thr,             \* thread -> the cache call it makes and where the call is
    \* ---- CodeAnalyzer._detect_duplicate_code ----
    lines,           \* the lines of the code segment
    smells,          \* the smells list the detector appended to
    \* ---- CodeAnalyzer.analyze_code ----
    source,          \* the code analyze_code was given, as far as the metrics see it
    metrics,         \* the CodeMetrics it returned
    \* ---- EmbeddingGenerator ----
    embedding,       \* the last vector brought to vector_size, with what it came from
    \* ---- ConfigurationManager ----
    config_files,    \* candidate file name -> what the file in the working directory holds
    config,          \* the manager under construction: values, file path, loop position
    \* ---- srpk.cli.main ----
    cli,             \* one invocation: argv, position, result, stdout, output file, status
    \* ---- RobustAnalyzer.analyze_file_safe, step by step ----
    safe,            \* one call: file, position, parse worker, result queue, result
    \* ---- EnterpriseSRPKGraph._auto_save ----
    auto_save,       \* auto_save_enabled, last_save_time and the time of day
    \* ---- EnterpriseSRPKGraph._get_python_files ----
    listing,         \* one enumeration: the root, the tree under it, the settings, the list
    \* ---- WebhookProcessor ----
    webhook          \* webhook_queue, the webhook_logs table, and the posts made so far

cacheVars == <<store, clock, enabled, compression, max_size_bytes, hist>>

graphVars == <<nodes, edges, file_registry, metrics_history, errors, state_file>>

callVars == <<pc, todo, task, results, outcome, runs>>
callVarsButPc == <<todo, task, results, outcome, runs>>

histVars == <<file_outcome, parse_log, miss_units, read_files>>

\* Variables the analysis runs and the sequential cache calls leave alone.
\* Variables of the calls that are looked at on their own.
extraVars == <<auto_save, listing, webhook>>
pureVars == <<source, metrics, embedding, config_files, config, cli, safe, extraVars>>

\* The variables of the cache, the graph, the threads and the detector.
baseVars == <<cacheVars, disk, parallel, cache_dir, thr, lines, smells,
              graphVars, callVars, histVars, extraVars>>

baseVarsButDetection ==
    <<cacheVars, disk, parallel, cache_dir, thr, graphVars, callVars, histVars>>

restVars == <<parallel, cache_dir, thr, lines, smells, pureVars>>

runVars == <<disk, restVars, graphVars, callVars, histVars>>

vars == <<cacheVars, runVars>>

-----------------------------------------------------------------------------
(* Bounds *)

\* Largest serialized size of a cached value, in size units.
MaxValue == 2
\* Number of cache calls (set, get, corruption) after construction.
MaxOps == 3
\* Number of analyze_project calls.
MaxRuns == 2

-----------------------------------------------------------------------------
(* Python values *)

\* None as a returned value (a cache miss).
None == [py |-> "None"]
\* A hash argument that is not supplied: None or the empty string, both falsy.
NoHash == ""

Keys == {"k1", "k2"}
Hashes == {"h1", "h2"}
\* A value with its serialized length.
Values == {[id |-> i, size |-> i] : i \in 1..MaxValue}
Caps == {1, 2}

Size(v) == IF "size" \in DOMAIN v THEN v.size ELSE Len(v.nodes)

-----------------------------------------------------------------------------
(* CacheManager *)

NoEntry == [kind |-> "absent", value |-> None, file_hash |-> NoHash,
            mtime |-> 0, size |-> 0]

\* What the bytes of a stored file are: a well-formed pickle of the data
\* dictionary ("ok"), or bytes whose loading raises.
CorruptKinds == {"unpickling", "truncated", "badgzip", "zlib", "attr"}

\* The exception pickle.load / gzip raise on a stored file ("" when none).
LoadError(e) ==
    CASE e.kind = "ok"         -> ""
      [] e.kind = "unpickling" -> "UnpicklingError"
      [] e.kind = "truncated"  -> "EOFError"
      [] e.kind = "badgzip"    -> "BadGzipFile"
      [] e.kind = "zlib"       -> "zlib.error"
      [] e.kind = "attr"       -> "AttributeError"

\* The exceptions of the first except clause of get.
CorruptionErrors == {"PicklingError", "UnpicklingError", "EOFError", "BadGzipFile"}

Present(s) == {k \in DOMAIN s : s[k].kind # "absent"}

RECURSIVE SumSizes(_, _)
SumSizes(s, ks) ==
    IF ks = {} THEN 0
    ELSE LET k == CHOOSE x \in ks : TRUE
         IN  s[k].size + SumSizes(s, ks \ {k})

TotalSize(s) == SumSizes(s, Present(s))

\* The sort of the sweep reversed: the most recently written file first.
Oldest_newestFirst(s) ==
    CHOOSE k \in Present(s) : \A j \in Present(s) : s[k].mtime >= s[j].mtime

\* The first file of sorted(glob, key=st_mtime).
Oldest(s) == CHOOSE k \in Present(s) : \A j \in Present(s) : s[k].mtime <= s[j].mtime

RECURSIVE Sweep(_, _)
Sweep(s, total) ==
    IF total <= max_size_bytes \/ Present(s) = {} THEN s
    ELSE LET k == Oldest(s)
         IN  Sweep([s EXCEPT ![k] = NoEntry], total - s[k].size)

\* A sweep that removes the oldest file only.
EnforceSizeLimit_oldestOnly(s) ==
    IF ~enabled THEN s
    ELSE IF TotalSize(s) > max_size_bytes /\ Present(s) # {}
         THEN [s EXCEPT ![Oldest(s)] = NoEntry]
    ELSE s

EnforceSizeLimit(s) ==
    IF ~enabled THEN s
    ELSE IF TotalSize(s) > max_size_bytes THEN Sweep(s, TotalSize(s))
    ELSE s

\* Entries older than max_age_days are removed when the manager is built.
MaxAge == 2
CleanupOldCache(s, now) ==
    IF ~enabled THEN s
    ELSE [k \in DOMAIN s |-> IF s[k].kind # "absent" /\ now - s[k].mtime > MaxAge
                            THEN NoEntry ELSE s[k]]

\* Python truthiness of the file_hash argument.
Supplied(h) == h # NoHash

\* get with a hash mismatch that reports the miss but keeps the file.
Get_keepOnMismatch(s, k, h, now) ==
    IF ~enabled \/ s[k].kind = "absent" THEN [result |-> None, store |-> s]
    ELSE IF LoadError(s[k]) # "" THEN
        [result |-> None,
         store |-> IF LoadError(s[k]) \in CorruptionErrors
                   THEN [s EXCEPT ![k] = NoEntry] ELSE s]
    ELSE IF Supplied(h) /\ s[k].file_hash # h THEN
        [result |-> None, store |-> s]
    ELSE [result |-> s[k].value,
          store |-> [s EXCEPT ![k].mtime = now]]

\* get(key, file_hash): the returned value (None on a miss) and the directory
\* afterwards.
Get(s, k, h, now) ==
    IF ~enabled \/ s[k].kind = "absent" THEN [result |-> None, store |-> s]
    ELSE IF LoadError(s[k]) # "" THEN
        [result |-> None,
         store |-> IF LoadError(s[k]) \in CorruptionErrors
                   THEN [s EXCEPT ![k] = NoEntry] ELSE s]
    ELSE IF Supplied(h) /\ s[k].file_hash # h THEN
        [result |-> None, store |-> [s EXCEPT ![k] = NoEntry]]
    ELSE [result |-> s[k].value,
          store |-> [s EXCEPT ![k].mtime = now]]

\* The file set writes: the pickled data dictionary.
Dump(v, h, now) ==
    [kind |-> "ok", value |-> v, file_hash |-> h, mtime |-> now, size |-> Size(v)]

\* set(key, value, file_hash): the directory afterwards.
Set(s, k, v, h, now) ==
    IF ~enabled THEN s
    ELSE EnforceSizeLimit([s EXCEPT ![k] = Dump(v, h, now)])

-----------------------------------------------------------------------------
(* The cache store on its own *)

\* One cache call as the properties see it: the arguments, the state of the
\* key's file before the call and the value returned.
NoCall == [op |-> "none", key |-> "", hash |-> NoHash, value |-> None,
           pre_kind |-> "absent", pre_hash |-> NoHash, result |-> None]

Call(op, k, h, v, pre, res) ==
    [op |-> op, key |-> k, hash |-> h, value |-> v,
     pre_kind |-> pre.kind, pre_hash |-> pre.file_hash, result |-> res]

\* Files found in the directory when the manager is built: none, one that has
\* outlived max_age_days beside a recent one, or two recent ones.
StartTime == MaxAge + 2
FoundFile(t) ==
    [kind |-> "ok", value |-> [id |-> 1, size |-> 1], file_hash |-> "h1",
     mtime |-> t, size |-> 1]
FoundStores ==
    {[k \in Keys |-> NoEntry],
     [k \in Keys |-> IF k = "k1" THEN FoundFile(0) ELSE FoundFile(StartTime - 1)],
     [k \in Keys |-> IF k = "k1" THEN FoundFile(StartTime - 2) ELSE FoundFile(StartTime - 1)]}


-----------------------------------------------------------------------------
(* The project on disk *)

\* Two source files with the same base name, in the order sorted() gives.
Files == {"a.py", "lib/a.py"}
GetPythonFiles == <<"a.py", "lib/a.py">>

\* Path.name
Name(f) == IF f = "lib/a.py" THEN "a.py" ELSE f

\* What a file holds, together with what the machine does while it is
\* analyzed:
\*   plain     valid source without definitions
\*   cls       valid source: class C with method m and async method am, and
\*             function f, which calls C()
\*   syntax    source that ast.parse rejects with a SyntaxError
\*   oversize  a file larger than analysis.max_file_size_mb
\*   deep      valid source with an expression nested deeper than the
\*             interpreter's recursion limit: ast.parse accepts it, the
\*             recursive visitors of analyze_code raise RecursionError
\*   memerr    valid source whose parse raises MemoryError
\*   memlimit  valid source, reached while the process is over its memory limit
\*   slow      source whose parse does not finish within the timeout
FileKinds == {"plain", "cls", "syntax", "oversize", "deep", "memerr", "memlimit", "slow"}

Def(type, name, lineno, body, calls) ==
    [type |-> type, name |-> name, lineno |-> lineno, body |-> body, calls |-> calls]

\* The definitions of the syntax tree of a file, top level first.
ClsTree ==
    << Def("ClassDef", "C", 1,
           << Def("FunctionDef", "m", 2, <<>>, {}),
              Def("AsyncFunctionDef", "am", 4, <<>>, {}) >>, {}),
       Def("FunctionDef", "f", 6, <<>>, {"C", "f"}) >>

\* The same file after an edit that appended a function g.
ClsTreeEdited == Append(ClsTree, Def("FunctionDef", "g", 8, <<>>, {}))

Tree(kind) ==
    CASE kind = "cls" -> ClsTree
      [] kind = "cls_edited" -> ClsTreeEdited
      [] OTHER -> <<>>

\* hashlib.sha256 of a text: one string per text.
Sha(text) == "sha:" \o text

\* _get_file_hash: the hash of the file's bytes.
GetFileHash(f) == Sha(disk[f].kind)

-----------------------------------------------------------------------------
(* Strings that are searched: as sequences of characters *)

Chars(s) ==
    CASE s = "C"  -> <<"C">>
      [] s = "m"  -> <<"m">>
      [] s = "am" -> <<"a", "m">>
      [] s = "f"  -> <<"f">>
      [] s = "g"  -> <<"g">>
      [] s = "a.py"     -> <<"a", ".", "p", "y">>
      [] s = "lib/a.py" -> <<"l", "i", "b", "/", "a", ".", "p", "y">>
      [] s = "File: "     -> <<"F", "i", "l", "e", ":", " ">>
      [] s = "Class: "    -> <<"C", "l", "a", "s", "s", ":", " ">>
      [] s = "Function: " -> <<"F", "u", "n", "c", "t", "i", "o", "n", ":", " ">>
      [] s = "Async Function: " ->
            <<"A", "s", "y", "n", "c", " ", "F", "u", "n", "c", "t", "i", "o", "n", ":", " ">>
      [] s = "Method: "   -> <<"M", "e", "t", "h", "o", "d", ":", " ">>
      [] s = "."          -> <<".">>

\* Python's  a in b  on strings.
In(a, b) == \E i \in 1..(Len(b) - Len(a) + 1) : SubSeq(b, i, i + Len(a) - 1) = a

-----------------------------------------------------------------------------
(* PersistentCodeNode and the extraction of code elements *)

NoId == ""
NoNode == [code_id |-> NoId]

\* _create_node; metrics, embedding, documentation and test skeletons are
\* values computed from the code segment alone and are left out.
CreateNode(code_id, type, segment, purpose, file_path, parent_id, calls) ==
    [code_id |-> code_id, type |-> type, code_hash |-> Sha(segment),
     purpose |-> purpose, file_path |-> file_path, parent_node_id |-> parent_id,
     child_node_ids |-> <<>>, calls |-> calls]

\* to_dict and from_dict: the fields written to and read from a dictionary.
ToDict(n) ==
    [code_id |-> n.code_id, type |-> n.type, code_hash |-> n.code_hash,
     purpose |-> n.purpose, file_path |-> n.file_path,
     parent_node_id |-> n.parent_node_id, child_node_ids |-> n.child_node_ids,
     calls |-> n.calls, version |-> "3.1"]

\* data.get(key, default)
Field(d, key, default) == IF key \in DOMAIN d THEN d[key] ELSE default

\* The keys from_dict reads with data[key]: without one of them it raises
\* KeyError. (The field calls stands for the code segment, type for the tags.)
RequiredKeys == {"code_id", "code_hash", "calls"}

FromDict(d) ==
    [code_id |-> d.code_id, type |-> Field(d, "type", ""), code_hash |-> d.code_hash,
     purpose |-> Field(d, "purpose", <<>>), file_path |-> Field(d, "file_path", ""),
     parent_node_id |-> Field(d, "parent_node_id", NoId),
     child_node_ids |-> Field(d, "child_node_ids", <<>>),
     calls |-> d.calls]

FileId(f) == "file:" \o Name(f) \o ":" \o ToString(disk[f].mtime)

ElementId(prefix, path, name, lineno) ==
    prefix \o ":" \o path \o ":" \o name \o ":" \o ToString(lineno)

\* _extract_method
ExtractMethod(d, path, class_id, class_name) ==
    CreateNode(ElementId("method", path, class_name \o "." \o d.name, d.lineno),
               "method", "def " \o class_name \o "." \o d.name,
               Chars("Method: ") \o Chars(class_name) \o Chars(".") \o Chars(d.name),
               path, class_id, d.calls)

\* The methods _extract_class makes of the FunctionDef items of a class body.
Methods(d, path, class_id) ==
    LET items == SelectSeq(d.body, LAMBDA x : x.type = "FunctionDef")
    IN  [i \in 1..Len(items) |-> ExtractMethod(items[i], path, class_id, d.name)]

Range(s) == {s[i] : i \in 1..Len(s)}

\* The names called anywhere in a definition.
AllCalls(d) == d.calls \cup UNION {x.calls : x \in Range(d.body)}

\* _extract_class
ExtractClass(d, path, parent_id) ==
    LET id == ElementId("class", path, d.name, d.lineno)
        ms == Methods(d, path, id)
    IN  [CreateNode(id, "class", "class " \o d.name,
                    Chars("Class: ") \o Chars(d.name), path, parent_id, AllCalls(d))
           EXCEPT !.child_node_ids = [i \in 1..Len(ms) |-> ms[i].code_id]]

\* _extract_function
ExtractFunction(d, path, parent_id) ==
    CreateNode(ElementId("func", path, d.name, d.lineno), "function",
               "def " \o d.name, Chars("Function: ") \o Chars(d.name),
               path, parent_id, AllCalls(d))

\* _extract_async_function
ExtractAsyncFunction(d, path, parent_id) ==
    CreateNode(ElementId("async_func", path, d.name, d.lineno), "async_function",
               "async def " \o d.name, Chars("Async Function: ") \o Chars(d.name),
               path, parent_id, AllCalls(d))

\* ast.walk: the definitions of a tree, breadth first, each with the type of
\* its parent.
RECURSIVE Nested(_, _)
Nested(tree, i) ==
    IF i > Len(tree) THEN <<>>
    ELSE [j \in 1..Len(tree[i].body) |-> [d |-> tree[i].body[j], parent |-> tree[i].type]]
         \o Nested(tree, i + 1)

Walk(tree) == [i \in 1..Len(tree) |-> [d |-> tree[i], parent |-> "Module"]] \o Nested(tree, 1)

\* The node _extract_code_elements makes of one definition (NoNode for a
\* method, which _extract_class handles).
Element(w, path, parent_id) ==
    CASE w.d.type = "ClassDef" -> ExtractClass(w.d, path, parent_id)
      [] w.d.type = "FunctionDef" /\ w.parent # "ClassDef" ->
            ExtractFunction(w.d, path, parent_id)
      [] w.d.type = "AsyncFunctionDef" -> ExtractAsyncFunction(w.d, path, parent_id)
      [] OTHER -> NoNode

\* _extract_code_elements: the list it returns, and every node it (and
\* _extract_class) writes to self.nodes.
ExtractCodeElements(tree, path, parent_id) ==
    LET walk == Walk(tree)
        made == [i \in 1..Len(walk) |-> Element(walk[i], path, parent_id)]
        classes == {w \in Range(walk) : w.d.type = "ClassDef"}
    IN  [list  |-> SelectSeq(made, LAMBDA n : n # NoNode),
         added |-> {n \in Range(made) : n # NoNode}
                   \cup UNION {Range(Methods(w.d, path,
                                  ElementId("class", path, w.d.name, w.d.lineno)))
                               : w \in classes}]

\* self.nodes after the given nodes are written to it.
Put(table, ns) ==
    [id \in DOMAIN table \cup {n.code_id : n \in ns} |->
        IF \E n \in ns : n.code_id = id
        THEN CHOOSE n \in ns : n.code_id = id
        ELSE table[id]]

-----------------------------------------------------------------------------
(* RobustAnalyzer.analyze_file_safe *)

ErrorReport(f, type, severity) ==
    [file_path |-> f, error_type |-> type, severity |-> severity]

\* How a call can end:  ret  is "tree" (a tree and its text are returned),
\* "none" or "raise" (an exception leaves the method);  text  is the text
\* returned with the tree;  reports  are the ErrorReports appended;  read
\* tells whether the file's bytes were read.
ParseEnd(ret, text, reports, read) ==
    [ret |-> ret, text |-> text, reports |-> reports, read |-> read]

\* _recover_from_memory_error, called from the except clause: it reads the
\* first 1000 lines outside any try (the read can fail again), and parses
\* them inside one.
RecoverFromMemoryError(f) ==
    { ParseEnd("tree", "plain", <<>>, TRUE),
      ParseEnd("none", "", <<ErrorReport(f, "MemoryError", "error")>>, TRUE),
      ParseEnd("raise", "", <<>>, TRUE) }

AnalyzeFileSafe(f) ==
    LET kind == disk[f].kind
    IN  CASE kind = "oversize" ->
                {ParseEnd("none", "", <<ErrorReport(f, "FileSizeError", "warning")>>, FALSE)}
          [] kind = "memlimit" ->
                {ParseEnd("none", "", <<ErrorReport(f, "MemoryLimitError", "critical")>>, FALSE)}
          [] kind = "slow" ->
                {ParseEnd("none", "", <<ErrorReport(f, "TimeoutError", "error")>>, TRUE)}
          [] kind = "syntax" ->
                {ParseEnd("none", "", <<ErrorReport(f, "SyntaxError", "error")>>, TRUE)}
          [] kind = "memerr" -> RecoverFromMemoryError(f)
          [] OTHER -> {ParseEnd("tree", kind, <<>>, TRUE)}

-----------------------------------------------------------------------------
(* EnterpriseSRPKGraph: one file *)

CacheKey(f) == "analysis:" \o f

\* What _analyze_file_wrapper leaves behind:  ret  is the dictionary it
\* returns (None otherwise),  how  says which way it went, and  parse  how
\* analyze_file_safe ended ("" when it was not called). _get_file_hash has
\* read the file's bytes in every case. The calls of one run happen within
\* one unit of the clock.
FileResult(nodes_created) == [nodes_created |-> nodes_created, edges_created |-> 0]

WrapperEnd(ns, reg, st, errs, ret, how, parse) ==
    [nodes |-> ns, file_registry |-> reg, store |-> st,
     errors |-> errs, ret |-> ret, how |-> how, parse |-> parse]

\* _analyze_file after analyze_file_safe returned a tree and its text, and
\* the rest of the wrapper: the nodes are written, the file is registered
\* and the list of nodes is cached.
AnalyzeTree(f, text, st, errs) ==
    LET file_node == CreateNode(FileId(f), "file", text,
                                Chars("File: ") \o Chars(f), f, NoId,
                                UNION {AllCalls(d) : d \in Range(Tree(text))})
        ex == ExtractCodeElements(Tree(text), f, file_node.code_id)
        list == <<file_node>> \o ex.list
        ids == [i \in 1..Len(list) |-> list[i].code_id]
        cache_data == [nodes |-> [i \in 1..Len(list) |-> ToDict(list[i])],
                       node_ids |-> ids]
    IN  WrapperEnd(Put(Put(nodes, {file_node}), ex.added),
                   [file_registry EXCEPT ![f] = ids],
                   Set(st, CacheKey(f), cache_data, GetFileHash(f), clock),
                   errs, FileResult(Len(list)), "analyzed", "tree")

\* The cache hit of the wrapper: the cached nodes are rebuilt and written,
\* the file is registered with the cached ids.
RestoreFromCache(f, cached, st) ==
    WrapperEnd(Put(nodes, {FromDict(d) : d \in Range(cached.nodes)}),
               [file_registry EXCEPT ![f] = cached.node_ids],
               st, errors, FileResult(Len(cached.nodes)), "hit", "")

\* _analyze_file_wrapper(f): every way it can end. It never raises: its
\* except clause logs and returns None.
AnalyzeFileWrapper(f) ==
    LET got == Get(store, CacheKey(f), GetFileHash(f), clock)
        st == got.store
    IN  IF got.result # None
        THEN {RestoreFromCache(f, got.result, st)}
        ELSE { CASE p.ret = "raise" ->
                      WrapperEnd(nodes, file_registry, st, errors, None,
                                 "exception", "raise")
                 [] p.ret = "none" ->
                      WrapperEnd(nodes, file_registry, st, errors \o p.reports, None,
                                 IF disk[f].kind = "oversize" THEN "skipped" ELSE "parse_failed",
                                 "none")
                 [] p.ret = "tree" /\ p.text = "deep" ->
                      WrapperEnd(nodes, file_registry, st, errors \o p.reports, None,
                                 "exception", "tree")
                 [] OTHER -> AnalyzeTree(f, p.text, st, errors \o p.reports)
               : p \in AnalyzeFileSafe(f) }

-----------------------------------------------------------------------------
(* EnterpriseSRPKGraph: dependencies, saving, summary *)

\* The edges one pass of _analyze_dependencies appends from src to dst: one
\* for every call in the segment of src whose name occurs in the purpose of
\* dst.
CallEdges(ns, src, dst) ==
    Cardinality({c \in ns[src].calls : In(Chars(c), ns[dst].purpose)})

NoEdges == [p \in {} |-> 0]

\* The sum of the values a function takes on a set of arguments.
RECURSIVE SumOver(_, _)
SumOver(fn, ks) ==
    IF ks = {} THEN 0
    ELSE LET k == CHOOSE x \in ks : TRUE
         IN  fn[k] + SumOver(fn, ks \ {k})

\* The number of entries of the edge lists: sum(len(edges) for edges in
\* self.edges.values()).
TotalEdges(es) == SumOver(es, DOMAIN es)

\* A pass without the  dep_id != node_id  test.
AnalyzeDependencies_selfEdges(ns, es) ==
    LET old(p) == IF p \in DOMAIN es THEN es[p] ELSE 0
        new(p) == CallEdges(ns, p[1], p[2])
    IN  [p \in {q \in (DOMAIN ns) \X (DOMAIN ns) : old(q) + new(q) > 0}
            |-> old(p) + new(p)]

\* self.edges after _analyze_dependencies: the pass appends to the lists
\* that are there.
AnalyzeDependencies(ns, es) ==
    LET old(p) == IF p \in DOMAIN es THEN es[p] ELSE 0
        new(p) == IF p[1] # p[2] THEN CallEdges(ns, p[1], p[2]) ELSE 0
    IN  [p \in {q \in (DOMAIN ns) \X (DOMAIN ns) : old(q) + new(q) > 0}
            |-> old(p) + new(p)]

\* The last n items of a list: list[-n:], for n > 0.
LastItems(list, n) ==
    IF Len(list) <= n THEN list ELSE SubSeq(list, Len(list) - n + 1, Len(list))

\* The number of history entries save_state writes.
HistoryLimit == 100

\* persistence.backup_count
BackupCount == 2

\* A state file that does not exist.
NoState == [version |-> "none"]

\* The files of one state path: path itself, path + '.gz', and the backups
\* of path in the order of their time stamps.
NoStateFiles == [plain |-> NoState, gz |-> NoState, backups |-> <<>>]

\* save_state: the dictionary written to the state file.
StateDict ==
    [version |-> "3.1",
     compression |-> compression,
     nodes |-> [id \in DOMAIN nodes |-> ToDict(nodes[id])],
     edges |-> edges,
     file_registry |-> file_registry,
     metrics_history |-> LastItems(metrics_history, HistoryLimit),
     total_errors |-> Len(errors)]

\* _create_backup: path is copied to a backup named by the second of the
\* copy (a backup of the same second is replaced), then all but the last
\* backup_count backups are removed (backups[:-max_backups]).
CreateBackup(files, now) ==
    LET all == Append(SelectSeq(files.backups, LAMBDA b : b.time # now),
                      [time |-> now, state |-> files.plain])
    IN  [files EXCEPT !.backups =
            IF Len(all) > BackupCount /\ BackupCount > 0
            THEN LastItems(all, BackupCount) ELSE all]

\* save_state(path, create_backup): the backup is made when path itself
\* exists; the dictionary goes to path + '.gz' with compression, to path
\* without.
SaveState(create_backup) ==
    LET backed == IF create_backup /\ state_file.plain # NoState
                  THEN CreateBackup(state_file, clock) ELSE state_file
    IN  IF compression THEN [backed EXCEPT !.gz = StateDict]
        ELSE [backed EXCEPT !.plain = StateDict]

\* _generate_summary: {} for an empty graph; otherwise it calls
\* calculate_quality_score on every node, a method PersistentCodeNode does
\* not have, and the AttributeError leaves analyze_project.
EmptySummary == [total_nodes |-> 0]
GenerateSummary(ns) ==
    IF DOMAIN ns = {} THEN [raised |-> FALSE, summary |-> EmptySummary]
    ELSE [raised |-> TRUE, summary |-> None]

-----------------------------------------------------------------------------
(* EnterpriseSRPKGraph.analyze_project *)

NoNodes == [id \in {} |-> NoNode]
NoTask == [cur |-> "none", ret |-> None, late |-> 0]
NoResults ==
    [files_analyzed |-> 0, files_failed |-> 0, nodes_created |-> 0,
     edges_created |-> 0, errors |-> <<>>]

\* The nodes of the graph that lie in a file.
Units(ns, f) == {ns[id] : id \in {i \in DOMAIN ns : ns[i].file_path = f}}

\* The state after one call of _analyze_file_wrapper(f) that ended as o.
Wrapped(f, o) ==
    /\ nodes' = o.nodes
    /\ file_registry' = o.file_registry
    /\ store' = o.store
    /\ errors' = o.errors
    /\ parse_log' = IF o.parse = "" THEN parse_log ELSE [parse_log EXCEPT ![f] = o.parse]
    /\ miss_units' = IF o.how = "analyzed"
                     THEN [miss_units EXCEPT ![f] = Units(o.nodes, f)]
                     ELSE miss_units
    /\ read_files' = read_files \cup {f}

\* The results dictionary after the wrapper returned ret for a file.
Counted(res, ret) ==
    IF ret = None THEN res
    ELSE [res EXCEPT !.nodes_created = @ + ret.nodes_created,
                     !.edges_created = @ + ret.edges_created,
                     !.files_analyzed = @ + 1]

\* The results dictionary after the future of file f timed out.
TimedOut(res, f) ==
    [res EXCEPT !.files_failed = @ + 1,
                !.errors = Append(@, [file |-> f, error |-> "Timeout"])]

cacheConfig == <<enabled, compression, max_size_bytes, hist, clock>>

\* analyze_project is called: the results dictionary is made, the files are
\* enumerated and, in parallel mode, one future per file is submitted.
StartRunUpTo(bound) ==
    /\ pc = "idle"
    /\ runs < bound
    /\ runs' = runs + 1
    /\ pc' = "files"
    /\ outcome' = "none"
    /\ results' = NoResults
    /\ todo' = GetPythonFiles
    /\ task' = [f \in Files |-> IF parallel THEN [task[f] EXCEPT !.cur = "queued", !.ret = None]
                                ELSE task[f]]
    /\ file_outcome' = [f \in Files |-> "pending"]
    /\ read_files' = {}
    /\ UNCHANGED <<cacheConfig, store, disk, restVars, graphVars, parse_log, miss_units>>

StartRun == StartRunUpTo(MaxRuns)

\* Sequential mode: the next file is analyzed.
AnalyzeNext ==
    /\ pc = "files" /\ ~parallel /\ todo # <<>>
    /\ LET f == Head(todo)
       IN  \E o \in AnalyzeFileWrapper(f) :
              /\ Wrapped(f, o)
              /\ results' = Counted(results, o.ret)
              /\ file_outcome' = [file_outcome EXCEPT ![f] = o.how]
    /\ todo' = Tail(todo)
    /\ UNCHANGED <<cacheConfig, disk, restVars, edges, metrics_history, state_file,
                   pc, task, outcome, runs>>

\* Parallel mode: a worker of the executor runs the future of file f.
TaskRun(f) ==
    /\ task[f].cur = "queued"
    /\ \E o \in AnalyzeFileWrapper(f) :
          /\ Wrapped(f, o)
          /\ task' = [task EXCEPT ![f].cur = "done", ![f].ret = o.ret]
          /\ file_outcome' = [file_outcome EXCEPT ![f] = o.how]
    /\ UNCHANGED <<cacheConfig, disk, restVars, edges, metrics_history, state_file,
                   pc, todo, results, outcome, runs>>

\* Parallel mode: future.result returns for the next file.
Collect ==
    /\ pc = "files" /\ parallel /\ todo # <<>>
    /\ task[Head(todo)].cur = "done"
    /\ results' = Counted(results, task[Head(todo)].ret)
    /\ todo' = Tail(todo)
    /\ UNCHANGED <<cacheVars, disk, restVars, graphVars, pc, task, outcome, runs, histVars>>

\* Parallel mode: future.result times out for the next file; its future
\* stays with the executor.
CollectTimeout ==
    /\ pc = "files" /\ parallel /\ todo # <<>>
    /\ task[Head(todo)].cur = "queued"
    /\ results' = TimedOut(results, Head(todo))
    /\ task' = [task EXCEPT ![Head(todo)].cur = "timedout", ![Head(todo)].late = @ + 1]
    /\ file_outcome' = [file_outcome EXCEPT ![Head(todo)] = "timeout"]
    /\ todo' = Tail(todo)
    /\ UNCHANGED <<cacheVars, disk, restVars, graphVars, pc, outcome, runs,
                   parse_log, miss_units, read_files>>

\* A future whose result nobody waits for any more runs to its end.
LateTaskRun(f) ==
    /\ task[f].late > 0
    /\ \E o \in AnalyzeFileWrapper(f) : Wrapped(f, o)
    /\ task' = [task EXCEPT ![f].late = @ - 1]
    /\ UNCHANGED <<cacheConfig, disk, restVars, edges, metrics_history, state_file,
                   pc, todo, results, outcome, runs, file_outcome>>

\* All files are collected: _analyze_dependencies.
Dependencies ==
    /\ pc = "files" /\ todo = <<>>
    /\ edges' = AnalyzeDependencies(nodes, edges)
    /\ pc' = "save"
    /\ UNCHANGED <<cacheVars, disk, restVars, nodes, file_registry, metrics_history,
                   errors, state_file, todo, task, results, outcome, runs, histVars>>

\* _auto_save: saves when save_interval_seconds have passed since the last
\* save.
AutoSave(elapsed) ==
    /\ pc = "save"
    /\ state_file' = IF elapsed THEN SaveState(TRUE) ELSE state_file
    /\ pc' = "summary"
    /\ UNCHANGED <<cacheVars, disk, restVars, nodes, edges, file_registry,
                   metrics_history, errors, todo, task, results, outcome, runs, histVars>>

\* _generate_summary and the end of analyze_project.
Summary ==
    /\ pc = "summary"
    /\ LET s == GenerateSummary(nodes)
       IN  /\ outcome' = IF s.raised THEN "raised" ELSE "returned"
           /\ metrics_history' = IF s.raised THEN metrics_history
                                 ELSE Append(metrics_history, [summary |-> s.summary])
    /\ pc' = "idle"
    /\ UNCHANGED <<cacheVars, disk, restVars, nodes, edges, file_registry, errors,
                   state_file, todo, task, results, runs, histVars>>

\* The process ends and a new one builds a new graph over the same cache
\* directory, at once or after the entries have aged out.
Restart(elapsed) ==
    /\ pc = "idle"
    /\ outcome # "none"
    /\ runs < MaxRuns
    /\ \A f \in Files : task[f].late = 0
    /\ clock' = clock + elapsed
    /\ store' = EnforceSizeLimit(CleanupOldCache(store, clock'))
    /\ nodes' = NoNodes
    /\ edges' = NoEdges
    /\ file_registry' = [f \in Files |-> <<>>]
    /\ metrics_history' = <<>>
    /\ errors' = <<>>
    /\ task' = [f \in Files |-> NoTask]
    /\ outcome' = "none"
    /\ UNCHANGED <<enabled, compression, max_size_bytes, hist, disk, restVars,
                   state_file, pc, todo, results, runs, histVars>>

\* The default of cache.max_size_mb, one size unit per cached node.
DefaultCap == 500

Mtimes == {1, 2}

\* A graph that has analyzed nothing yet.
IdleGraph ==
    /\ nodes = NoNodes
    /\ edges = NoEdges
    /\ file_registry = [f \in Files |-> <<>>]
    /\ metrics_history = <<>>
    /\ errors = <<>>
    /\ pc = "idle"
    /\ todo = <<>>
    /\ task = [f \in Files |-> NoTask]
    /\ results = NoResults
    /\ outcome = "none"
    /\ runs = 0
    /\ file_outcome = [f \in Files |-> "pending"]
    /\ parse_log = [f \in Files |-> ""]
    /\ miss_units = [f \in Files |-> {}]
    /\ read_files = {}

\* The same, with no state file on disk.
IdleRun == IdleGraph /\ state_file = NoStateFiles

\* No thread is inside a cache call and the cache directory exists.
Threads == {"t1", "t2"}
NoThread == [op |-> "none", pc |-> "done", key |-> "", value |-> None,
             hash |-> NoHash, data |-> NoEntry, linked |-> FALSE,
             ret |-> None, log |-> ""]
NoThreads == cache_dir = TRUE /\ thr = [t \in Threads |-> NoThread]

\* The duplicate-code detector has nothing to look at.
NoDetection == lines = <<>> /\ smells = <<>>

\* CodeMetrics(): the defaults of the dataclass.
NoMetrics ==
    [cyclomatic_complexity |-> 0, lines_of_code |-> 0, logical_lines_of_code |-> 0,
     comment_lines |-> 0, blank_lines |-> 0, volume |-> 1, maintainability_index |-> 0]

\* analyze_code has not been called.
NoEmbedding == [source |-> <<>>, width |-> 0, indices |-> <<>>, output |-> <<>>]

\* CONFIG_FILENAMES, in the order of the list.
CONFIG_FILENAMES ==
    <<".srpk.toml", ".srpk.json", ".srpk.yaml", ".srpk.yml", "srpk.config.toml",
      "srpk.config.json", ".srpkrc">>

\* The two options of DEFAULT_CONFIG the candidate files set.
DefaultValues == [max_size_mb |-> 500, max_workers |-> 4]

\* ConfigurationManager.__init__, lines 199-201, before the discovery.
NewConfig == [values |-> DefaultValues, config_file_path |-> "", next |-> 1,
              raised |-> FALSE, loaded |-> 0]

NoConfig == config_files = [i \in 1..Len(CONFIG_FILENAMES) |-> "absent"] /\ config = NewConfig

\* No command line has been given.
NoCli == [argv |-> <<>>, pc |-> "done", res |-> <<>>, stdout |-> <<>>,
          file |-> <<>>, status |-> 0]

\* analyze_file_safe is not running.
NoParse == [file |-> "", pc |-> "done", worker |-> "none", queue |-> <<>>,
            exc |-> "", ret |-> "none", attempted |-> {}, timed_out |-> FALSE,
            called |-> {}]

\* EnterpriseSRPKGraph.__init__: auto-save is on by default and the last save
\* time is the time of construction.
NewAutoSave(auto_save_enabled) ==
    [auto_save_enabled |-> auto_save_enabled, last_save_time |-> 0, time |-> 0,
     saves |-> 0]

NoCalls ==
    /\ source = <<>> /\ metrics = NoMetrics /\ embedding = NoEmbedding /\ NoConfig
    /\ cli = NoCli /\ safe = NoParse

\* _get_python_files has not been called.
NoListing == [called |-> FALSE]

WebhookIds == {"w1", "w2"}

\* WebhookProcessor.__init__: an empty queue; no row in webhook_logs.
NoWebhooks ==
    [webhook_queue |-> <<>>, webhook_logs |-> <<>>,
     posts |-> [id \in WebhookIds |-> 0], queued |-> {}]

NoExtras == auto_save = NewAutoSave(TRUE) /\ listing = NoListing /\ webhook = NoWebhooks

NoAnalysis == NoCalls /\ NoExtras

\* EnterpriseSRPKGraph.__init__ over an empty cache directory.
Init ==
    /\ enabled = TRUE
    /\ compression = TRUE
    /\ max_size_bytes = DefaultCap
    /\ clock = StartTime
    /\ store = [k \in {CacheKey(f) : f \in Files} |-> NoEntry]
    /\ hist = <<NoCall, NoCall>>
    /\ disk \in [Files -> [kind : FileKinds, mtime : Mtimes]]
    /\ disk["a.py"].mtime = 1
    /\ parallel \in BOOLEAN
    /\ NoThreads /\ NoDetection /\ NoAnalysis
    /\ IdleRun

Next ==
    \/ StartRun
    \/ AnalyzeNext
    \/ \E f \in Files : TaskRun(f)
    \/ Collect
    \/ CollectTimeout
    \/ \E f \in Files : LateTaskRun(f)
    \/ Dependencies
    \/ \E elapsed \in BOOLEAN : AutoSave(elapsed)
    \/ Summary
    \/ \E elapsed \in {0, MaxAge + 1} : Restart(elapsed)

Spec == Init /\ [][Next]_vars

-----------------------------------------------------------------------------
(* Persistence: save_state and load_state called between the runs *)

\* The file load_state(path) reads: path + '.gz' when that exists, else path.
StateFileRead(files) == IF files.gz # NoState THEN files.gz ELSE files.plain

\* from_dict succeeds on the record.
Restorable(d) == RequiredKeys \subseteq DOMAIN d

\* A load that gives up at the first record from_dict fails on.
LoadedNodes_abortOnMalformed(file) ==
    IF \A i \in DOMAIN file.nodes : Restorable(file.nodes[i])
    THEN [id \in DOMAIN file.nodes |-> FromDict(file.nodes[id])]
    ELSE NoNodes

\* load_state: the nodes rebuilt one by one; a record from_dict fails on is
\* logged and left out.
LoadedNodes(file) ==
    [id \in {i \in DOMAIN file.nodes : Restorable(file.nodes[i])}
        |-> FromDict(file.nodes[id])]

\* The content hash of every node of the graph.
GraphHashes(ns) == [id \in DOMAIN ns |-> ns[id].code_hash]

\* A persistence call, as kept in hist: its argument, and the graph, the
\* files and the configuration it found.
PersistCall(op, arg) ==
    [op |-> op, arg |-> arg, graph |-> GraphHashes(nodes), files |-> state_file,
     compression |-> compression, runs |-> runs]

persistUnchanged ==
    <<store, enabled, max_size_bytes, disk, restVars, errors,
      pc, todo, task, results, outcome, runs, histVars>>

\* graph.save_state(path, create_backup)
SaveStateCall(create_backup) ==
    /\ pc = "idle"
    /\ clock < StartTime + MaxOps
    /\ clock' = clock + 1
    /\ state_file' = SaveState(create_backup)
    /\ hist' = <<hist[2], PersistCall("save", create_backup)>>
    /\ UNCHANGED <<persistUnchanged, compression, nodes, edges, file_registry,
                   metrics_history>>

\* graph.load_state(path), when one of the two files exists. The
\* configuration is restored from the file as well.
LoadStateCall ==
    /\ pc = "idle"
    /\ clock < StartTime + MaxOps
    /\ clock' = clock + 1
    /\ StateFileRead(state_file) # NoState
    /\ LET file == StateFileRead(state_file)
       IN  /\ compression' = file.compression
           /\ nodes' = LoadedNodes(file)
           /\ edges' = file.edges
           /\ file_registry' = file.file_registry
           /\ metrics_history' = file.metrics_history
    /\ hist' = <<hist[2], PersistCall("load", FALSE)>>
    /\ UNCHANGED <<persistUnchanged, state_file>>

\* config.set('cache.compression', b)
SetCompression(b) ==
    /\ pc = "idle"
    /\ clock < StartTime + MaxOps
    /\ clock' = clock + 1
    /\ compression # b
    /\ compression' = b
    /\ hist' = <<hist[2], PersistCall("config", b)>>
    /\ UNCHANGED <<persistUnchanged, graphVars>>

\* One node record of the state file is damaged outside the program: a key
\* is missing from it.
DamagedKeys == {"code_hash", "purpose"}
Damage(file, id, key) ==
    [file EXCEPT !.nodes[id] = [k \in DOMAIN @ \ {key} |-> @[k]]]

DamageRecord(id, key) ==
    /\ pc = "idle"
    /\ clock < StartTime + MaxOps
    /\ clock' = clock + 1
    /\ StateFileRead(state_file) # NoState
    /\ id \in DOMAIN StateFileRead(state_file).nodes
    /\ Restorable(StateFileRead(state_file).nodes[id])
    /\ key \in DOMAIN StateFileRead(state_file).nodes[id]
    /\ state_file' = IF state_file.gz # NoState
                     THEN [state_file EXCEPT !.gz = Damage(@, id, key)]
                     ELSE [state_file EXCEPT !.plain = Damage(@, id, key)]
    /\ hist' = <<hist[2], PersistCall("damage", FALSE)>>
    /\ UNCHANGED <<persistUnchanged, compression, nodes, edges, file_registry,
                   metrics_history>>

\* What an earlier process left at the state path: nothing, or the
\* compressed state of a graph without nodes.
EmptyState ==
    [version |-> "3.1", compression |-> TRUE, nodes |-> NoNodes, edges |-> NoEdges,
     file_registry |-> [f \in Files |-> <<>>], metrics_history |-> <<>>,
     total_errors |-> 0]
FoundStateFiles == {NoStateFiles, [NoStateFiles EXCEPT !.gz = EmptyState]}

\* Number of analyze_project calls between the persistence calls.
PersistRuns == 1

\* A graph over a project of one file with a class and one without
\* definitions, analyzed sequentially.
InitPersist ==
    /\ enabled = TRUE
    /\ compression \in BOOLEAN
    /\ max_size_bytes = DefaultCap
    /\ clock = StartTime
    /\ store = [k \in {CacheKey(f) : f \in Files} |-> NoEntry]
    /\ hist = <<NoCall, NoCall>>
    /\ disk = [f \in Files |-> IF f = "a.py" THEN [kind |-> "cls", mtime |-> 1]
                               ELSE [kind |-> "plain", mtime |-> 2]]
    /\ parallel = FALSE
    /\ NoThreads /\ NoDetection /\ NoAnalysis
    /\ IdleGraph
    /\ state_file \in FoundStateFiles

NextPersist ==
    \/ StartRunUpTo(PersistRuns)
    \/ AnalyzeNext
    \/ Dependencies
    \/ \E elapsed \in BOOLEAN : AutoSave(elapsed)
    \/ Summary
    \/ \E create_backup \in BOOLEAN : SaveStateCall(create_backup)
    \/ LoadStateCall
    \/ \E b \in BOOLEAN : SetCompression(b)
    \/ \E id \in DOMAIN nodes, key \in DamagedKeys : DamageRecord(id, key)

SpecPersist == InitPersist /\ [][NextPersist]_vars

-----------------------------------------------------------------------------
(* Runs over a project whose files are edited between them *)

\* What an edit makes of a file: definitions are written into a file that
\* had none, a function is appended to the file that had some.
Edited(kind) == IF kind = "plain" THEN "cls" ELSE "cls_edited"

\* A file is edited and saved: new content, later modification time.
Edit(f) ==
    /\ pc = "idle"
    /\ disk[f].kind \in {"plain", "cls"}
    /\ disk' = [disk EXCEPT ![f] = [kind |-> Edited(@.kind), mtime |-> @.mtime + 1]]
    /\ UNCHANGED <<cacheVars, restVars, graphVars, callVars, histVars>>

\* The identity keys _analyze_file gives the nodes of a file as it is on
\* disk.
IdsOf(f) ==
    {FileId(f)} \cup
    {n.code_id : n \in ExtractCodeElements(Tree(disk[f].kind), f, FileId(f)).added}

InitEdit ==
    /\ enabled = TRUE
    /\ compression = TRUE
    /\ max_size_bytes = DefaultCap
    /\ clock = StartTime
    /\ store = [k \in {CacheKey(f) : f \in Files} |-> NoEntry]
    /\ hist = <<NoCall, NoCall>>
    /\ disk \in [Files -> [kind : {"plain", "cls"}, mtime : Mtimes]]
    /\ disk["a.py"].mtime = 1
    /\ parallel = FALSE
    /\ NoThreads /\ NoDetection /\ NoAnalysis
    /\ IdleRun

NextEdit ==
    \/ StartRun
    \/ AnalyzeNext
    \/ Dependencies
    \/ \E elapsed \in BOOLEAN : AutoSave(elapsed)
    \/ Summary
    \/ \E f \in Files : Edit(f)

SpecEdit == InitEdit /\ [][NextEdit]_vars

-----------------------------------------------------------------------------
(* Many runs of one graph over a project whose files all fail *)

\* The number of reports get_error_summary returns as a sample.
SampleLimit == 100

\* list(set(...)): the elements of a set in some order, each once.
RECURSIVE ListOf(_)
ListOf(S) ==
    IF S = {} THEN <<>>
    ELSE LET x == CHOOSE y \in S : TRUE
         IN  <<x>> \o ListOf(S \ {x})

\* A summary whose failed-file list has one entry per report.
GetErrorSummary_filePerReport(errs) ==
    [total_errors |-> Len(errs),
     error_types |-> [ty \in {errs[i].error_type : i \in 1..Len(errs)} |->
                        Cardinality({i \in 1..Len(errs) : errs[i].error_type = ty})],
     severity_counts |-> [sv \in {errs[i].severity : i \in 1..Len(errs)} |->
                        Cardinality({i \in 1..Len(errs) : errs[i].severity = sv})],
     failed_files |-> [i \in 1..Len(errs) |-> errs[i].file_path],
     critical_errors |-> SelectSeq(errs, LAMBDA e : e.severity = "critical"),
     errors |-> SubSeq(errs, 1, IF Len(errs) < SampleLimit THEN Len(errs) ELSE SampleLimit)]

\* RobustAnalyzer.get_error_summary
GetErrorSummary(errs) ==
    [total_errors |-> Len(errs),
     error_types |-> [ty \in {errs[i].error_type : i \in 1..Len(errs)} |->
                        Cardinality({i \in 1..Len(errs) : errs[i].error_type = ty})],
     severity_counts |-> [sv \in {errs[i].severity : i \in 1..Len(errs)} |->
                        Cardinality({i \in 1..Len(errs) : errs[i].severity = sv})],
     failed_files |-> ListOf({errs[i].file_path : i \in 1..Len(errs)}),
     critical_errors |-> SelectSeq(errs, LAMBDA e : e.severity = "critical"),
     errors |-> SubSeq(errs, 1, IF Len(errs) < SampleLimit THEN Len(errs) ELSE SampleLimit)]

\* Number of analyze_project calls on the one graph.
HistoryRuns == 101

\* Files that leave no node: rejected by the parser, over the size ceiling,
\* or met over the memory limit.
InitHistory ==
    /\ enabled = TRUE
    /\ compression = TRUE
    /\ max_size_bytes = DefaultCap
    /\ clock = StartTime
    /\ store = [k \in {CacheKey(f) : f \in Files} |-> NoEntry]
    /\ hist = <<NoCall, NoCall>>
    /\ disk \in [Files -> [kind : {"syntax", "oversize", "memlimit"}, mtime : {1}]]
    /\ parallel = FALSE
    /\ NoThreads /\ NoDetection /\ NoAnalysis
    /\ IdleRun

\* The runs follow each other within the save interval.
NextHistory ==
    \/ StartRunUpTo(HistoryRuns)
    \/ AnalyzeNext
    \/ Dependencies
    \/ AutoSave(FALSE)
    \/ Summary

SpecHistory == InitHistory /\ [][NextHistory]_vars

-----------------------------------------------------------------------------
(* CodeAnalyzer._detect_duplicate_code on the lines of one code segment *)

\* Longest code segment, in lines.
MaxLines == 10
\* min_block_size
MinBlockSize == 5
LineTexts == {"a", "b"}

\* A code string: its lines, and whether a newline ends the last one.
Codes ==
    {[text |-> tx, newline |-> nl] :
        tx \in UNION {[1..n -> LineTexts] : n \in 0..MaxLines}, nl \in BOOLEAN}

\* code.split('\n'): a trailing newline leaves an empty last element.
Split(code) ==
    (IF code.text = <<>> THEN <<"">> ELSE code.text)
        \o (IF code.newline THEN <<"">> ELSE <<>>)

\* lines[i:i+min_block_size], i counted from 0; its digest stands for it.
Block(ls, i) == SubSeq(ls, i + 1, i + MinBlockSize)

Smell(line, first) ==
    [type |-> "duplicate_code", line |-> line, severity |-> "low", duplicate_of |-> first]

\* The loop over range(len(lines) - min_block_size), from index i on, with
\* the blocks seen so far (block -> 1-based line of its first occurrence).
RECURSIVE DetectFrom(_, _, _, _)
DetectFrom(ls, i, seen_blocks, sm) ==
    IF i >= Len(ls) - MinBlockSize THEN sm
    ELSE LET block == Block(ls, i)
         IN  IF block \in DOMAIN seen_blocks
             THEN DetectFrom(ls, i + 1, seen_blocks,
                             Append(sm, Smell(i + 1, seen_blocks[block])))
             ELSE DetectFrom(ls, i + 1, seen_blocks @@ (block :> i + 1), sm)

DetectDuplicateCode(ls, sm) == DetectFrom(ls, 0, <<>>, sm)

\* _detect_code_smells, as far as the duplicate detector goes: the code is
\* split into lines and the detector appends to the smells list.
DetectCodeSmells ==
    /\ lines = <<>>
    /\ \E code \in Codes :
        /\ lines' = Split(code)
        /\ smells' = DetectDuplicateCode(lines', <<>>)
    /\ UNCHANGED <<cacheVars, disk, parallel, cache_dir, thr, pureVars, graphVars, callVars, histVars>>

InitDup ==
    /\ enabled = TRUE
    /\ compression = TRUE
    /\ max_size_bytes = DefaultCap
    /\ clock = StartTime
    /\ store = [k \in Keys |-> NoEntry]
    /\ hist = <<NoCall, NoCall>>
    /\ disk = [f \in Files |-> [kind |-> "plain", mtime |-> 1]]
    /\ parallel = FALSE
    /\ NoThreads /\ NoDetection /\ NoAnalysis
    /\ IdleRun

NextDup == DetectCodeSmells

SpecDup == InitDup /\ [][NextDup]_vars

-----------------------------------------------------------------------------
(* Two threads calling one CacheManager: each call is a sequence of file  *)
(* system operations, and the operations of two calls interleave.         *)

concUnchanged ==
    <<clock, enabled, compression, max_size_bytes, hist, disk, parallel,
      lines, smells, pureVars, graphVars, callVars, histVars>>

\* The key both threads use, and the hashes passed.
ConcKey == "k1"

\* A file opened with 'wb' and not yet written: loading it raises EOFError.
EmptyFile(now) ==
    [kind |-> "truncated", value |-> None, file_hash |-> NoHash,
     mtime |-> now, size |-> 0]

\* Removing the directory entry of key k: a thread that holds the file open
\* for writing goes on writing to a file no path leads to.
Unlinked(th, ks) ==
    [t \in Threads |->
        IF th[t].pc = "set:dump" /\ th[t].key \in ks
        THEN [th[t] EXCEPT !.linked = FALSE] ELSE th[t]]

Begin(t, op, k, v, h, next) ==
    [NoThread EXCEPT !.op = op, !.pc = next, !.key = k, !.value = v, !.hash = h]

Return(th, res, logged) == [th EXCEPT !.pc = "done", !.ret = res, !.log = logged]

Free(t) == thr[t].op = "none"

\* get, lines 398-404: enabled is tested, then cache_path.exists().
GetExists(t) ==
    /\ Free(t)
    /\ \E h \in Hashes \cup {NoHash} :
        thr' = [thr EXCEPT ![t] =
                  IF ~enabled \/ ~cache_dir \/ store[ConcKey].kind = "absent"
                  THEN Return(Begin(t, "get", ConcKey, None, h, "done"), None, "")
                  ELSE Begin(t, "get", ConcKey, None, h, "get:load")]
    /\ UNCHANGED <<store, cache_dir, concUnchanged>>

\* get, lines 406-417: the file is opened and unpickled, the hash compared.
GetLoad(t) ==
    /\ thr[t].pc = "get:load"
    /\ LET e == store[thr[t].key]
       IN  thr' = [thr EXCEPT ![t] =
                     IF ~cache_dir \/ e.kind = "absent"
                     THEN Return(@, None, "FileNotFoundError")
                     ELSE IF LoadError(e) \in CorruptionErrors
                     THEN [@ EXCEPT !.pc = "get:unlink_corrupt", !.log = LoadError(e)]
                     ELSE IF LoadError(e) # ""
                     THEN Return(@, None, LoadError(e))
                     ELSE IF Supplied(@.hash) /\ e.file_hash # @.hash
                     THEN [@ EXCEPT !.pc = "get:unlink_mismatch", !.data = e]
                     ELSE [@ EXCEPT !.pc = "get:touch", !.data = e]]
    /\ UNCHANGED <<store, cache_dir, concUnchanged>>

\* get, lines 416 and 426-429: cache_path.unlink(); an unlink that fails is
\* swallowed (corrupted file) or logged by the last handler (mismatch).
GetUnlink(t) ==
    /\ thr[t].pc \in {"get:unlink_corrupt", "get:unlink_mismatch"}
    /\ LET k == thr[t].key
           there == cache_dir /\ store[k].kind # "absent"
       IN  /\ store' = IF there THEN [store EXCEPT ![k] = NoEntry] ELSE store
           /\ thr' = [Unlinked(thr, IF there THEN {k} ELSE {}) EXCEPT ![t] =
                        Return(@, None,
                               IF ~there /\ @.pc = "get:unlink_mismatch"
                               THEN "FileNotFoundError" ELSE @.log)]
    /\ UNCHANGED <<cache_dir, concUnchanged>>

\* get, lines 419-423: cache_path.touch() creates the file when it is gone
\* and fails when the directory is gone; then the value is returned.
GetTouch(t) ==
    /\ thr[t].pc = "get:touch"
    /\ LET k == thr[t].key
       IN  IF ~cache_dir
           THEN /\ thr' = [thr EXCEPT ![t] = Return(@, None, "FileNotFoundError")]
                /\ store' = store
           ELSE /\ thr' = [thr EXCEPT ![t] = Return(@, @.data.value, "")]
                /\ store' = [store EXCEPT ![k] =
                               IF @.kind = "absent" THEN EmptyFile(clock)
                               ELSE [@ EXCEPT !.mtime = clock]]
    /\ UNCHANGED <<cache_dir, concUnchanged>>

\* set, lines 439-453: the file is opened with 'wb', which creates it or
\* empties it. One thread at a time writes a key.
SetOpen(t) ==
    /\ Free(t)
    /\ \A u \in Threads : ~(thr[u].op = "set" /\ thr[u].pc # "done")
    /\ \E v \in Values, h \in Hashes :
        IF ~enabled
        THEN /\ thr' = [thr EXCEPT ![t] =
                          Return(Begin(t, "set", ConcKey, v, h, "done"), None, "")]
             /\ store' = store
        ELSE IF ~cache_dir
        THEN /\ thr' = [thr EXCEPT ![t] =
                          Return(Begin(t, "set", ConcKey, v, h, "done"), None,
                                 "FileNotFoundError")]
             /\ store' = store
        ELSE /\ thr' = [thr EXCEPT ![t] =
                          [Begin(t, "set", ConcKey, v, h, "set:dump")
                              EXCEPT !.linked = TRUE]]
             /\ store' = [store EXCEPT ![ConcKey] = EmptyFile(clock)]
    /\ UNCHANGED <<cache_dir, concUnchanged>>

\* set, lines 454-457: pickle.dump and the close of the file.
SetDump(t) ==
    /\ thr[t].pc = "set:dump"
    /\ store' = IF thr[t].linked
                THEN [store EXCEPT ![thr[t].key] =
                         Dump(thr[t].value, thr[t].hash, clock)]
                ELSE store
    /\ thr' = [thr EXCEPT ![t].pc = "set:enforce"]
    /\ UNCHANGED <<cache_dir, concUnchanged>>

\* set, lines 461-462: _enforce_size_limit over the files of the directory.
SetEnforce(t) ==
    /\ thr[t].pc = "set:enforce"
    /\ store' = IF cache_dir THEN EnforceSizeLimit(store) ELSE store
    /\ thr' = [Unlinked(thr, Present(store) \ Present(store')) EXCEPT ![t] =
                 Return(@, None, "")]
    /\ UNCHANGED <<cache_dir, concUnchanged>>

\* clear, line 469: self.cache_dir.exists()
ClearExists(t) ==
    /\ Free(t)
    /\ thr' = [thr EXCEPT ![t] =
                 IF cache_dir THEN Begin(t, "clear", "", None, NoHash, "clear:unlink")
                 ELSE Return(Begin(t, "clear", "", None, NoHash, "done"), None, "")]
    /\ UNCHANGED <<store, cache_dir, concUnchanged>>

\* clear, line 471: shutil.rmtree first removes the files it lists ...
ClearUnlink(t) ==
    /\ thr[t].pc = "clear:unlink"
    /\ store' = [k \in DOMAIN store |-> NoEntry]
    /\ thr' = [Unlinked(thr, Present(store)) EXCEPT ![t].pc = "clear:rmdir"]
    /\ UNCHANGED <<cache_dir, concUnchanged>>

\* ... and then removes the directory, which fails when a file has been
\* created in it meanwhile; the failure is logged (lines 474-475).
ClearRmdir(t) ==
    /\ thr[t].pc = "clear:rmdir"
    /\ IF cache_dir /\ Present(store) = {}
       THEN /\ cache_dir' = FALSE
            /\ thr' = [thr EXCEPT ![t].pc = "clear:mkdir"]
       ELSE /\ cache_dir' = cache_dir
            /\ thr' = [thr EXCEPT ![t] = Return(@, None, "OSError")]
    /\ UNCHANGED <<store, concUnchanged>>

\* clear, line 472: self.cache_dir.mkdir(exist_ok=True)
ClearMkdir(t) ==
    /\ thr[t].pc = "clear:mkdir"
    /\ cache_dir' = TRUE
    /\ thr' = [thr EXCEPT ![t] = Return(@, None, "")]
    /\ UNCHANGED <<store, concUnchanged>>

\* get_info, lines 477-492: a missing directory is reported as a disabled
\* cache.
GetInfo(t) ==
    /\ Free(t)
    /\ thr' = [thr EXCEPT ![t] =
                 Return(Begin(t, "get_info", "", None, NoHash, "done"),
                        IF ~cache_dir THEN [enabled |-> FALSE, files |-> 0]
                        ELSE [enabled |-> enabled,
                              files |-> Cardinality(Present(store))],
                        "")]
    /\ UNCHANGED <<store, cache_dir, concUnchanged>>

\* The directory holds nothing, or one entry written by an earlier set.
InitConc ==
    /\ enabled = TRUE
    /\ compression \in BOOLEAN
    /\ max_size_bytes = DefaultCap
    /\ clock = StartTime
    /\ store \in {[k \in Keys |-> NoEntry],
                  [k \in Keys |-> IF k = ConcKey THEN FoundFile(StartTime - 1)
                                  ELSE NoEntry]}
    /\ hist = <<NoCall, NoCall>>
    /\ disk = [f \in Files |-> [kind |-> "plain", mtime |-> 1]]
    /\ parallel = TRUE
    /\ NoThreads /\ NoDetection /\ NoAnalysis
    /\ IdleRun

NextConc ==
    \E t \in Threads :
        \/ GetExists(t)
        \/ GetLoad(t)
        \/ GetUnlink(t)
        \/ GetTouch(t)
        \/ SetOpen(t)
        \/ SetDump(t)
        \/ SetEnforce(t)
        \/ ClearExists(t)
        \/ ClearUnlink(t)
        \/ ClearRmdir(t)
        \/ ClearMkdir(t)
        \/ GetInfo(t)

SpecConc == InitConc /\ [][NextConc]_vars

-----------------------------------------------------------------------------
(* CodeAnalyzer.analyze_code: the complexity and maintainability numbers *)

\* The nodes ast.walk yields, as far as the complexity count tells them
\* apart: the node type and the length of node.values (BoolOp) or node.ifs
\* (comprehension).
TreeNodes ==
    {[type |-> ty, n |-> 0] :
        ty \in {"If", "While", "For", "AsyncFor", "ExceptHandler", "With",
                "AsyncWith", "Assert", "Raise", "Name"}}
    \cup {[type |-> "BoolOp", n |-> n] : n \in {2, 3}}
    \cup {[type |-> "comprehension", n |-> n] : n \in {0, 1, 2}}

\* _calculate_cyclomatic_complexity over the first i nodes of the walk.
RECURSIVE CyclomaticComplexity(_, _)
CyclomaticComplexity(tree, i) ==
    IF i = 0 THEN 1
    ELSE CyclomaticComplexity(tree, i - 1) +
         (CASE tree[i].type \in {"If", "While", "For", "ExceptHandler", "With",
                                 "Assert", "Raise"} -> 1
            [] tree[i].type = "BoolOp" -> tree[i].n - 1
            [] tree[i].type = "comprehension" -> tree[i].n
            [] OTHER -> 0)

\* math.log in thousandths, rounded down, for the arguments that occur.
Ln1000(x) ==
    CASE x = 1 -> 0
      [] x = 2 -> 693
      [] x = 5 -> 1609
      [] x = 10 -> 2302
      [] x = 1000 -> 6907
      [] x = 500000 -> 13122
      [] x = 1000000 -> 13815

\* np.log2 of a vocabulary, exact on the powers of two used.
Log2(x) == CASE x = 1 -> 0 [] x = 2 -> 1 [] x = 4 -> 2

\* The 'volume' of _calculate_halstead_metrics.
HalsteadVolume(vocabulary, length) ==
    IF vocabulary > 0 /\ length > 0 THEN length * Log2(vocabulary) ELSE 0

\* The index before it is normalised, in thousandths.
RawIndex(m) ==
    LET loc == IF m.logical_lines_of_code > 1 THEN m.logical_lines_of_code ELSE 1
    IN  171000
        - (IF m.volume > 0 THEN (52 * Ln1000(m.volume)) \div 10 ELSE 0)
        - 230 * m.cyclomatic_complexity
        - (IF loc > 0 THEN (162 * Ln1000(loc)) \div 10 ELSE 0)
        + (IF m.lines_of_code > 0 THEN (50000 * m.comment_lines) \div m.lines_of_code ELSE 0)

\* The index returned as computed, without max(0, min(100, mi)).
MaintainabilityIndex_raw(m) == RawIndex(m)

\* _calculate_maintainability_index, in thousandths.
MaintainabilityIndex(m) ==
    LET mi == RawIndex(m)
        low == IF mi < 100000 THEN mi ELSE 100000
    IN  IF low > 0 THEN low ELSE 0

\* What analyze_code is given: the line counts of the text, whether ast.parse
\* accepts it, the nodes of the tree and the operator/operand counts.
Sources ==
    {s \in [logical : {0, 1, 2, 10, 1000}, comments : {0, 1, 10}, blank : {0, 1},
            parse : {"ok", "SyntaxError"}, tree : UNION {[1..n -> TreeNodes] : n \in 0..2},
            vocabulary : {0, 1, 2, 4}, length : {0, 1, 5, 500000}] :
        /\ s.logical + s.comments + s.blank >= 1
        /\ (s.vocabulary = 0) = (s.length = 0)
        /\ s.vocabulary <= s.length
        /\ s.parse = "SyntaxError" => s.tree = <<>> /\ s.vocabulary = 0}

\* analyze_code, lines 1040-1086: the line counts, then under try the tree
\* metrics (left at their defaults on a SyntaxError), then the index.
AnalyzeCode ==
    /\ source = <<>>
    /\ \E s \in Sources :
        /\ source' = s
        /\ LET counted ==
                 [NoMetrics EXCEPT
                    !.lines_of_code = s.logical + s.comments + s.blank,
                    !.blank_lines = s.blank,
                    !.comment_lines = s.comments,
                    !.logical_lines_of_code = s.logical]
               parsed ==
                 IF s.parse = "ok"
                 THEN [counted EXCEPT
                         !.cyclomatic_complexity = CyclomaticComplexity(s.tree, Len(s.tree)),
                         !.volume = HalsteadVolume(s.vocabulary, s.length)]
                 ELSE counted
           IN  metrics' = [parsed EXCEPT !.maintainability_index = MaintainabilityIndex(parsed)]
    /\ UNCHANGED <<baseVars, embedding, config_files, config, cli, safe>>

InitMetrics ==
    /\ enabled = TRUE
    /\ compression = TRUE
    /\ max_size_bytes = DefaultCap
    /\ clock = StartTime
    /\ store = [k \in Keys |-> NoEntry]
    /\ hist = <<NoCall, NoCall>>
    /\ disk = [f \in Files |-> [kind |-> "plain", mtime |-> 1]]
    /\ parallel = FALSE
    /\ NoThreads /\ NoDetection /\ NoAnalysis
    /\ IdleRun

SpecMetrics == InitMetrics /\ [][AnalyzeCode]_vars

-----------------------------------------------------------------------------
(* EmbeddingGenerator: bringing a vector to the configured width *)

\* Longest vector handed to the resize.
MaxEntries == 6
\* The widths the validator of embedding.vector_size admits, scaled down.
VectorSizes == {3, 4}
\* Entries of a vector, in thousandths.
Entries == {0, 1000}

\* np.tanh of a product of two entries, in thousandths.
Tanh1000(a, b) == IF a = 1000 /\ b = 1000 THEN 762 ELSE 0

\* Indices taken at a fixed stride of n // w.
Linspace_fixedStride(n, w) == [j \in 1..w |-> (j - 1) * (n \div w)]

\* np.linspace(0, n - 1, w, dtype=int): w evenly spaced positions from 0 to
\* n - 1, each cut to an integer.
Linspace(n, w) ==
    [j \in 1..w |-> IF w = 1 THEN 0 ELSE ((j - 1) * (n - 1)) \div (w - 1)]

\* _resize_embedding: the indices selected (none unless it compresses) and
\* the vector returned.
ResizeEmbedding(e, w) ==
    IF Len(e) = w THEN [indices |-> <<>>, output |-> e]
    ELSE IF Len(e) < w
    THEN [indices |-> <<>>,
          output |-> [i \in 1..w |-> IF i <= Len(e) THEN e[i] ELSE 0]]
    ELSE LET ix == Linspace(Len(e), w)
         IN  [indices |-> ix, output |-> [j \in 1..w |-> e[ix[j] + 1]]]

\* The end of _generate_feature_embedding, lines 880-898: a short feature
\* vector is copied and filled with derived entries, a long one is resized.
FeatureEmbedding(f, w) ==
    IF Len(f) < w
    THEN [indices |-> <<>>,
          output |-> [i \in 1..w |->
                        IF i <= Len(f) THEN f[i]
                        ELSE Tanh1000(f[((i - 1) % Len(f)) + 1],
                                      f[(((i - 1) * 7) % Len(f)) + 1])]]
    ELSE ResizeEmbedding(f, w)

\* One vector is brought to vector_size: a model embedding (line 819) or a
\* feature vector (lines 884-898).
Resize ==
    /\ embedding = NoEmbedding
    /\ \E n \in 1..MaxEntries, w \in VectorSizes, semantic \in BOOLEAN :
        \E e \in [1..n -> Entries] :
            LET r == IF semantic THEN ResizeEmbedding(e, w) ELSE FeatureEmbedding(e, w)
            IN  embedding' = [source |-> e, width |-> w,
                              indices |-> r.indices, output |-> r.output]
    /\ UNCHANGED <<baseVars, source, metrics, config_files, config, cli, safe>>

SpecEmbedding == InitMetrics /\ [][Resize]_vars

-----------------------------------------------------------------------------
(* ConfigurationManager(): discovery of a configuration file *)

\* What a candidate file holds:
\*   absent    no such file
\*   broken    text the parser of its format rejects (or a directory)
\*   invalid   {"cache": {"max_size_mb": 100}, "analysis": {"max_workers": 0}}:
\*             the second value fails its validator
\*   good      {"cache": {"max_size_mb": 100}, "analysis": {"max_workers": i}}
\*             for the i-th candidate
ConfigKinds == {"absent", "broken", "invalid", "good"}

\* The dictionary a file parses to.
UserConfig(i, kind) ==
    [max_size_mb |-> 100, max_workers |-> IF kind = "good" THEN i ELSE 0]

\* _validate_config with the validators of cache.max_size_mb and
\* analysis.max_workers.
Valid(user) ==
    /\ user.max_size_mb > 0 /\ user.max_size_mb <= 10000
    /\ user.max_workers > 0 /\ user.max_workers <= 16

\* A load that merges what it has read before it validates it.
LoadConfig_mergeFirst(c, i, kind) ==
    IF kind = "broken"
    THEN [c EXCEPT !.config_file_path = CONFIG_FILENAMES[i], !.raised = TRUE]
    ELSE [c EXCEPT !.config_file_path = CONFIG_FILENAMES[i],
                   !.values = UserConfig(i, kind),
                   !.raised = ~Valid(UserConfig(i, kind))]

\* load_config(path): the path is recorded, the file read and parsed, the
\* result validated and then merged; any failure is raised as ValueError.
LoadConfig(c, i, kind) ==
    IF kind = "broken" \/ ~Valid(UserConfig(i, kind))
    THEN [c EXCEPT !.config_file_path = CONFIG_FILENAMES[i], !.raised = TRUE]
    ELSE [c EXCEPT !.config_file_path = CONFIG_FILENAMES[i],
                   !.values = UserConfig(i, kind), !.raised = FALSE]

\* One turn of the loop of _auto_discover_config: a file that exists is
\* loaded; a load that raises is logged and the loop goes on, a load that
\* returns ends the discovery.
AutoDiscoverConfig ==
    /\ config.next <= Len(CONFIG_FILENAMES)
    /\ LET i == config.next
           kind == config_files[i]
           c == LoadConfig(config, i, kind)
       IN  config' =
             IF kind = "absent" THEN [config EXCEPT !.next = i + 1]
             ELSE IF c.raised THEN [c EXCEPT !.raised = FALSE, !.next = i + 1]
             ELSE [c EXCEPT !.next = Len(CONFIG_FILENAMES) + 1, !.loaded = i]
    /\ UNCHANGED <<baseVars, source, metrics, embedding, config_files, cli, safe>>

InitConfig ==
    /\ enabled = TRUE
    /\ compression = TRUE
    /\ max_size_bytes = DefaultCap
    /\ clock = StartTime
    /\ store = [k \in Keys |-> NoEntry]
    /\ hist = <<NoCall, NoCall>>
    /\ disk = [f \in Files |-> [kind |-> "plain", mtime |-> 1]]
    /\ parallel = FALSE
    /\ NoThreads /\ NoDetection
    /\ source = <<>> /\ metrics = NoMetrics /\ embedding = NoEmbedding
    /\ config_files \in [1..Len(CONFIG_FILENAMES) -> ConfigKinds]
    /\ config = NewConfig
    /\ cli = NoCli /\ safe = NoParse
    /\ NoExtras
    /\ IdleRun

SpecConfig == InitConfig /\ [][AutoDiscoverConfig]_vars

-----------------------------------------------------------------------------
(* srpk.cli.main: one invocation of the command line *)

\* Command lines: the sub-command (none, --version, analyze), the path
\* argument ("" when left out), the -o argument ("" when left out; a name
\* under "nodir/" lies in a directory that does not exist), and what the
\* output file held before.
Argvs ==
    [cmd : {"", "--version", "analyze"}, path : {"", ".", "proj", "other"},
     out : {"", "out.json", "b.json", "nodir/out.json"},
     old : {<<>>, <<"old text">>}]

\* The analyze of lines 8-11, used when the package offers none.
Analyze0(path) ==
    [ok |-> [py |-> "bool", v |-> TRUE], project |-> [py |-> "str", v |-> path]]

\* json.dumps of a dict of booleans and strings: an object whose members are
\* true / false and quoted strings.
JsonDumps(d) ==
    [json |-> "object",
     members |-> [k \in DOMAIN d |->
                    IF d[k].py = "bool"
                    THEN [json |-> IF d[k].v THEN "true" ELSE "false"]
                    ELSE [json |-> "string", chars |-> d[k].v]]]

\* An output step that prints the result whether or not -o is given.
Emit_alwaysPrints(c) ==
    LET text == JsonDumps(c.res)
    IN  IF c.argv.out # "" /\ c.argv.out \notin {"nodir/out.json"}
        THEN [c EXCEPT !.file = <<text>>, !.stdout = <<text>>, !.pc = "done", !.status = 0]
        ELSE IF c.argv.out # ""
        THEN [c EXCEPT !.pc = "done", !.status = 1]
        ELSE [c EXCEPT !.stdout = <<text>>, !.pc = "done", !.status = 0]

\* Lines 25-30: the result is dumped and written to the -o file or printed;
\* main returns 0. A file that cannot be opened ends the process with a
\* traceback and status 1.
Emit(c) ==
    LET text == JsonDumps(c.res)
    IN  IF c.argv.out # "" /\ c.argv.out \notin {"nodir/out.json"}
        THEN [c EXCEPT !.file = <<text>>, !.pc = "done", !.status = 0]
        ELSE IF c.argv.out # ""
        THEN [c EXCEPT !.pc = "done", !.status = 1]
        ELSE [c EXCEPT !.stdout = <<text>>, !.pc = "done", !.status = 0]

\* Lines 15-23: the parser ends the process for --version (status 0) and for
\* a missing sub-command (status 2); the path defaults to ".".
ParseArgs ==
    /\ cli.pc = "parse"
    /\ cli' = CASE cli.argv.cmd = "--version" ->
                     [cli EXCEPT !.stdout = <<"srpk 0.1.0">>, !.pc = "done", !.status = 0]
                [] cli.argv.cmd = "" -> [cli EXCEPT !.pc = "done", !.status = 2]
                [] OTHER ->
                     [cli EXCEPT !.pc = "analyze",
                                 !.argv.path = IF @ = "" THEN "." ELSE @]
    /\ UNCHANGED <<baseVars, source, metrics, embedding, config_files, config, safe>>

\* Line 24: res = analyze(args.path)
CliAnalyze ==
    /\ cli.pc = "analyze"
    /\ cli' = [cli EXCEPT !.res = Analyze0(cli.argv.path), !.pc = "emit"]
    /\ UNCHANGED <<baseVars, source, metrics, embedding, config_files, config, safe>>

CliEmit ==
    /\ cli.pc = "emit"
    /\ cli' = Emit(cli)
    /\ UNCHANGED <<baseVars, source, metrics, embedding, config_files, config, safe>>

InitCli ==
    /\ enabled = TRUE
    /\ compression = TRUE
    /\ max_size_bytes = DefaultCap
    /\ clock = StartTime
    /\ store = [k \in Keys |-> NoEntry]
    /\ hist = <<NoCall, NoCall>>
    /\ disk = [f \in Files |-> [kind |-> "plain", mtime |-> 1]]
    /\ parallel = FALSE
    /\ NoThreads /\ NoDetection
    /\ source = <<>> /\ metrics = NoMetrics /\ embedding = NoEmbedding /\ NoConfig
    /\ \E a \in Argvs :
          cli = [argv |-> a, pc |-> "parse", res |-> <<>>, stdout |-> <<>>,
                 file |-> a.old, status |-> 0]
    /\ safe = NoParse
    /\ NoExtras
    /\ IdleRun

NextCli == ParseArgs \/ CliAnalyze \/ CliEmit

SpecCli == InitCli /\ [][NextCli]_vars

-----------------------------------------------------------------------------
(* RobustAnalyzer.analyze_file_safe step by step, with its parse worker *)

parseUnchanged ==
    <<cacheVars, disk, parallel, cache_dir, thr, lines, smells, nodes, edges,
      file_registry, metrics_history, state_file, callVars, histVars,
      source, metrics, embedding, config_files, config, cli, extraVars>>

\* error_recovery_strategies: the strategy registered for an exception type.
Strategies == {"SyntaxError", "UnicodeDecodeError", "MemoryError"}

\* analyze_file_safe returns: the call ends with ret and the reports.
SafeReturn(p, ret, reports) ==
    /\ safe' = [p EXCEPT !.pc = "done", !.ret = ret]
    /\ errors' = errors \o reports

\* What the worker puts on the queue when ast.parse ends, by what the file
\* holds.
WorkerResult(kind) ==
    CASE kind = "syntax" -> <<"error", "SyntaxError">>
      [] kind = "memerr" -> <<"error", "MemoryError">>
      [] OTHER           -> <<"success", kind>>

\* Lines 565-601 and 641-654: the size and the memory are checked, the text
\* is read, and the parse worker is started.
SafeStart(f) ==
    /\ safe.pc = "done" /\ f \notin safe.called
    /\ LET p == [NoParse EXCEPT !.file = f, !.called = safe.called \cup {f}]
       IN  CASE disk[f].kind = "oversize" ->
                   SafeReturn(p, "none", <<ErrorReport(f, "FileSizeError", "warning")>>)
             [] disk[f].kind = "memlimit" ->
                   SafeReturn(p, "none", <<ErrorReport(f, "MemoryLimitError", "critical")>>)
             [] OTHER ->
                   /\ safe' = [p EXCEPT !.pc = "join", !.worker = "running"]
                   /\ errors' = errors
    /\ UNCHANGED parseUnchanged

\* parse_worker ends: its result goes on the queue of the call that started
\* it, whether or not that call still waits.
WorkerFinish ==
    /\ safe.worker = "running"
    /\ safe' = [safe EXCEPT !.worker = "finished",
                              !.queue = Append(@, WorkerResult(disk[safe.file].kind))]
    /\ UNCHANGED <<errors, parseUnchanged>>

\* thread.join(timeout) returns: the worker has ended, or the timeout has
\* passed on a parse that is slow.
Join ==
    /\ safe.pc = "join"
    /\ safe.worker = "finished" \/ disk[safe.file].kind = "slow"
    /\ safe' = [safe EXCEPT !.pc = "check"]
    /\ UNCHANGED <<errors, parseUnchanged>>

\* Lines 656-663 without the report: a live worker only ends the safe.
AfterJoin_noReport(p) ==
    IF p.worker = "running"
    THEN [p |-> [p EXCEPT !.timed_out = TRUE, !.pc = "done", !.ret = "none"],
          reports |-> <<>>]
    ELSE LET item == Head(p.queue)
         IN  IF item[1] = "success"
             THEN [p |-> [p EXCEPT !.queue = Tail(@), !.pc = "done", !.ret = "tree"],
                   reports |-> <<>>]
             ELSE IF item[2] = "SyntaxError"
             THEN [p |-> [p EXCEPT !.queue = Tail(@), !.pc = "done", !.ret = "none"],
                   reports |-> <<ErrorReport(p.file, "SyntaxError", "error")>>]
             ELSE [p |-> [p EXCEPT !.queue = Tail(@), !.pc = "handler", !.exc = item[2]],
                   reports |-> <<>>]

\* Lines 656-684 and 603-608: a worker that is still alive is abandoned with
\* a TimeoutError report and None; otherwise the queue is read: a tree is
\* returned, a SyntaxError is reported here and None returned, any other
\* exception is raised to the handler of analyze_file_safe.
AfterJoin(p) ==
    IF p.worker = "running"
    THEN [p |-> [p EXCEPT !.timed_out = TRUE, !.pc = "done", !.ret = "none"],
          reports |-> <<ErrorReport(p.file, "TimeoutError", "error")>>]
    ELSE LET item == Head(p.queue)
         IN  IF item[1] = "success"
             THEN [p |-> [p EXCEPT !.queue = Tail(@), !.pc = "done", !.ret = "tree"],
                   reports |-> <<>>]
             ELSE IF item[2] = "SyntaxError"
             THEN [p |-> [p EXCEPT !.queue = Tail(@), !.pc = "done", !.ret = "none"],
                   reports |-> <<ErrorReport(p.file, "SyntaxError", "error")>>]
             ELSE [p |-> [p EXCEPT !.queue = Tail(@), !.pc = "handler", !.exc = item[2]],
                   reports |-> <<>>]

ParseCheck ==
    /\ safe.pc = "check"
    /\ safe' = AfterJoin(safe).p
    /\ errors' = errors \o AfterJoin(safe).reports
    /\ UNCHANGED parseUnchanged

\* Lines 620-637, except Exception: the strategy registered for the type of
\* the exception is called and its result returned if it has one; otherwise
\* the exception is reported.
Handler ==
    /\ safe.pc = "handler"
    /\ LET p == [safe EXCEPT !.attempted =
                    IF safe.exc \in Strategies THEN @ \cup {safe.exc} ELSE @]
       IN  IF safe.exc = "MemoryError"
           THEN \E e \in RecoverFromMemoryError(safe.file) :
                   SafeReturn(p, e.ret, e.reports)
           ELSE SafeReturn(p, "none", <<ErrorReport(safe.file, safe.exc, "error")>>)
    /\ UNCHANGED parseUnchanged

InitParse ==
    /\ enabled = TRUE
    /\ compression = TRUE
    /\ max_size_bytes = DefaultCap
    /\ clock = StartTime
    /\ store = [k \in {CacheKey(f) : f \in Files} |-> NoEntry]
    /\ hist = <<NoCall, NoCall>>
    /\ disk \in [Files -> [kind : FileKinds, mtime : {1}]]
    /\ parallel = FALSE
    /\ NoThreads /\ NoDetection /\ NoAnalysis
    /\ IdleRun

NextParse ==
    \/ \E f \in Files : SafeStart(f)
    \/ WorkerFinish
    \/ Join
    \/ ParseCheck
    \/ Handler

SpecParse == InitParse /\ [][NextParse]_vars

-----------------------------------------------------------------------------
(* analyze_project runs with the time of day: _auto_save *)

\* persistence.save_interval_seconds
SaveIntervalSeconds == 300

\* Calls of analyze_project on the one graph, and the longest time followed,
\* in half intervals.
AutoSaveRuns == 3
MaxWaits == 4

\* A test that asks for more than the interval.
AutoSaveDue_strict(a) == a.time - a.last_save_time > SaveIntervalSeconds

\* current_time - self.last_save_time >= interval
AutoSaveDue(a) == a.time - a.last_save_time >= SaveIntervalSeconds

\* if self.auto_save_enabled: self._auto_save()
TimedAutoSave ==
    /\ pc = "save"
    /\ LET due == auto_save.auto_save_enabled /\ AutoSaveDue(auto_save)
       IN  /\ state_file' = IF due THEN SaveState(TRUE) ELSE state_file
           /\ auto_save' = IF due
                           THEN [auto_save EXCEPT !.last_save_time = auto_save.time,
                                                  !.saves = @ + 1]
                           ELSE auto_save
    /\ pc' = "summary"
    /\ UNCHANGED <<cacheVars, disk, parallel, cache_dir, thr, lines, smells,
                   source, metrics, embedding, config_files, config, cli, safe,
                   nodes, edges, file_registry, metrics_history, errors,
                   callVarsButPc, histVars, listing, webhook>>

\* Half an interval passes.
Wait ==
    /\ auto_save.time < MaxWaits * (SaveIntervalSeconds \div 2)
    /\ auto_save' = [auto_save EXCEPT !.time = @ + SaveIntervalSeconds \div 2]
    /\ UNCHANGED <<cacheVars, disk, parallel, cache_dir, thr, lines, smells,
                   source, metrics, embedding, config_files, config, cli, safe,
                   graphVars, callVars, histVars, listing, webhook>>

InitAutoSave ==
    /\ enabled = TRUE
    /\ compression \in BOOLEAN
    /\ max_size_bytes = DefaultCap
    /\ clock = StartTime
    /\ store = [k \in {CacheKey(f) : f \in Files} |-> NoEntry]
    /\ hist = <<NoCall, NoCall>>
    /\ disk \in [Files -> [kind : {"plain", "syntax"}, mtime : {1}]]
    /\ parallel = FALSE
    /\ NoThreads /\ NoDetection /\ NoCalls
    /\ \E b \in BOOLEAN : auto_save = NewAutoSave(b)
    /\ listing = NoListing
    /\ webhook = NoWebhooks
    /\ IdleRun

NextAutoSave ==
    \/ StartRunUpTo(AutoSaveRuns)
    \/ AnalyzeNext
    \/ Dependencies
    \/ TimedAutoSave
    \/ Summary
    \/ Wait

SpecAutoSave == InitAutoSave /\ [][NextAutoSave]_vars

-----------------------------------------------------------------------------
(* CodeAnalyzer._detect_code_smells: the loop over the nodes of the tree *)

\* metrics.complexity.*
CyclomaticThreshold == 10
LinesPerFunctionThreshold == 50
ParametersThreshold == 5
MethodsPerClassThreshold == 20

\* Function bodies, as the nodes the complexity count walks: complexity 1, 2,
\* 10 (a condition of ten operands) and 11.
Bodies ==
    { <<>>,
      <<[type |-> "If", n |-> 0]>>,
      <<[type |-> "BoolOp", n |-> CyclomaticThreshold]>>,
      <<[type |-> "BoolOp", n |-> CyclomaticThreshold], [type |-> "If", n |-> 0]>> }

\* The FunctionDef and ClassDef nodes ast.walk yields: a function with the
\* lines it spans, its parameters and its body; a class with its methods.
SmellNodes ==
    [type : {"FunctionDef"}, func_lines : {1, LinesPerFunctionThreshold + 1},
     params : {0, ParametersThreshold + 1}, body : Bodies]
    \cup {[type |-> "ClassDef", methods |-> n] : n \in {0, MethodsPerClassThreshold + 1}}

NodeSmell(type, line) == [type |-> type, line |-> line]

\* One pass of the loop body over the i-th node of the walk (its line is i):
\* the if / elif chain of lines 1276-1332.
SmellsOfNode(node, i) ==
    IF node.type = "FunctionDef" THEN
        (IF node.func_lines > LinesPerFunctionThreshold
         THEN <<NodeSmell("long_function", i)>> ELSE <<>>)
        \o (IF node.params > ParametersThreshold
            THEN <<NodeSmell("too_many_parameters", i)>> ELSE <<>>)
    ELSE IF node.type = "ClassDef" THEN
        (IF node.methods > MethodsPerClassThreshold
         THEN <<NodeSmell("large_class", i)>> ELSE <<>>)
    ELSE IF node.type = "FunctionDef" THEN
        (IF CyclomaticComplexity(node.body, Len(node.body)) > CyclomaticThreshold
         THEN <<NodeSmell("complex_function", i)>> ELSE <<>>)
    ELSE <<>>

RECURSIVE SmellsOfWalk(_, _)
SmellsOfWalk(walk, i) ==
    IF i = 0 THEN <<>>
    ELSE SmellsOfWalk(walk, i - 1) \o SmellsOfNode(walk[i], i)

\* _detect_code_smells(tree, code) on a code without repeated lines.
DetectSmells ==
    /\ lines = <<>>
    /\ \E walk \in UNION {[1..n -> SmellNodes] : n \in 0..2} :
        /\ source' = walk
        /\ lines' = Split([text |-> <<>>, newline |-> FALSE])
        /\ smells' = DetectDuplicateCode(lines', SmellsOfWalk(walk, Len(walk)))
    /\ UNCHANGED <<baseVarsButDetection, metrics, embedding, config_files, config, cli, safe,
                   extraVars>>

SpecSmells == InitMetrics /\ [][DetectSmells]_vars

-----------------------------------------------------------------------------
(* EnterpriseSRPKGraph._get_python_files *)

\* The characters of the names that occur in the paths.
Letters(name) ==
    CASE name = "home"      -> <<"h", "o", "m", "e">>
      [] name = "proj"      -> <<"p", "r", "o", "j">>
      [] name = "build"     -> <<"b", "u", "i", "l", "d">>
      [] name = "tests"     -> <<"t", "e", "s", "t", "s">>
      [] name = "Tests"     -> <<"T", "e", "s", "t", "s">>
      [] name = "pkg"       -> <<"p", "k", "g">>
      [] name = "a.py"      -> <<"a", ".", "p", "y">>
      [] name = "test_a.py" -> <<"t", "e", "s", "t", "_", "a", ".", "p", "y">>

\* The characters in the order of their code points.
Alphabet ==
    <<".", "/", "T", "_", "a", "b", "d", "e", "g", "h", "i", "j", "k", "l", "m",
      "o", "p", "r", "s", "t", "u", "y">>
Ord(c) == CHOOSE i \in 1..Len(Alphabet) : Alphabet[i] = c

\* str.lower()
Lower(text) == [i \in 1..Len(text) |-> IF text[i] = "T" THEN "t" ELSE text[i]]

\* str(path) of an absolute path: the parts after "/" joined by "/".
RECURSIVE PathStr(_)
PathStr(parts) ==
    IF parts = <<>> THEN <<>>
    ELSE <<"/">> \o Letters(Head(parts)) \o PathStr(Tail(parts))

\* The order of Path objects: the order of their tuples of parts, which is
\* the order of the strings with a separator below every character.
RECURSIVE PathKey(_)
PathKey(parts) ==
    IF parts = <<>> THEN <<>>
    ELSE <<0>> \o [i \in 1..Len(Letters(Head(parts))) |-> Ord(Letters(Head(parts))[i])]
              \o PathKey(Tail(parts))

RECURSIVE KeyLess(_, _)
KeyLess(a, b) ==
    IF b = <<>> THEN FALSE
    ELSE IF a = <<>> THEN TRUE
    ELSE IF Head(a) # Head(b) THEN Head(a) < Head(b)
    ELSE KeyLess(Tail(a), Tail(b))

PathLess(p, q) == KeyLess(PathKey(p), PathKey(q))

\* analysis.excluded_dirs
ExcludedDirs ==
    {".git", ".venv", "venv", "__pycache__", "node_modules", ".tox", "dist", "build"}

\* analysis.excluded_files, each pattern as the text before and after its
\* "*": the default "*.pyc" (the other defaults are alike), and "test_*".
PycPattern == [prefix |-> <<>>, suffix |-> <<".", "p", "y", "c">>]
TestPattern == [prefix |-> <<"t", "e", "s", "t", "_">>, suffix |-> <<>>]

\* path.match(pattern) for a pattern of one component: the last part of the
\* path matches the glob.
PathMatch(parts, pattern) ==
    LET name == Letters(parts[Len(parts)])
        n == Len(name)
    IN  /\ n >= Len(pattern.prefix) + Len(pattern.suffix)
        /\ SubSeq(name, 1, Len(pattern.prefix)) = pattern.prefix
        /\ SubSeq(name, n - Len(pattern.suffix) + 1, n) = pattern.suffix

TestIndicators ==
    { <<"t", "e", "s", "t", "_">>,
      <<"_", "t", "e", "s", "t", ".", "p", "y">>,
      <<"t", "e", "s", "t", "s", "/">>,
      <<"t", "e", "s", "t", "i", "n", "g", "/">> }

\* should_exclude(path)
ShouldExclude(parts, l) ==
    \/ \E i \in 1..Len(parts) : parts[i] \in ExcludedDirs
    \/ /\ ~l.include_tests
       /\ \E ind \in TestIndicators : In(ind, Lower(PathStr(parts)))
    \/ \E pattern \in l.excluded_files : PathMatch(parts, pattern)

\* A sequence of the elements of a set, in the order rglob happens to yield.
RECURSIVE Yielded(_)
Yielded(S) ==
    IF S = {} THEN <<>>
    ELSE LET x == CHOOSE y \in S : TRUE
         IN  <<x>> \o Yielded(S \ {x})

\* _get_python_files(project_path): rglob yields the paths of the tree with
\* the root in front.
PythonFiles(l) ==
    LET found == {l.root \o r : r \in l.tree}
        kept == {p \in found :
                    /\ ~(~l.follow_symlinks /\ SubSeq(p, Len(l.root) + 1, Len(p)) \in l.symlinks)
                    /\ ~ShouldExclude(p, l)}
    IN  SortSeq(Yielded(kept), PathLess)

\* Project roots: their parts below "/".
Roots == { <<"home", "proj">>, <<"home", "build", "proj">>, <<"home", "tests", "proj">> }

\* The .py files a project can hold, by their parts below the root.
RelPaths ==
    { <<"a.py">>, <<"pkg", "a.py">>, <<"build", "a.py">>, <<"Tests", "a.py">>,
      <<"pkg", "test_a.py">> }

GetFiles ==
    /\ ~listing.called
    /\ \E root \in Roots, tree \in SUBSET RelPaths, include_tests \in BOOLEAN,
          follow_symlinks \in BOOLEAN, excluded_files \in {{PycPattern}, {PycPattern, TestPattern}} :
          \E symlinks \in SUBSET (tree \cap {<<"pkg", "a.py">>}) :
            LET l == [called |-> TRUE, root |-> root, tree |-> tree, symlinks |-> symlinks,
                      include_tests |-> include_tests, follow_symlinks |-> follow_symlinks,
                      excluded_files |-> excluded_files]
            IN  listing' = [called |-> TRUE, settings |-> l, files |-> PythonFiles(l)]
    /\ UNCHANGED <<cacheVars, disk, parallel, cache_dir, thr, lines, smells,
                   graphVars, callVars, histVars,
                   source, metrics, embedding, config_files, config, cli, safe, auto_save,
                   webhook>>

SpecFiles == InitMetrics /\ [][GetFiles]_vars

-----------------------------------------------------------------------------
(* WebhookProcessor: the delivery queue *)

\* max_retries of send_webhook
MaxRetries == 3

\* What requests.post gives: a response with a status code, or an exception
\* (no connection, timeout).
Responses ==
    {[raised |-> FALSE, status_code |-> c] : c \in {200, 204, 302, 500}}
    \cup {[raised |-> TRUE, status_code |-> 0]}

Delivered(response) ==
    ~response.raised /\ response.status_code >= 200 /\ response.status_code < 300

\* log_webhook_delivery: a row is inserted when the database connection is
\* made and the insert succeeds; otherwise the error is logged and swallowed.
LogWebhookDelivery(logs, webhook_id, success, db_ok) ==
    IF db_ok THEN Append(logs, [webhook_id |-> webhook_id, success |-> success])
    ELSE logs

\* process_webhook_event: the notification of a webhook event is queued with
\* retry_count 0.
ProcessWebhookEvent(id) ==
    /\ id \notin webhook.queued
    /\ webhook' = [webhook EXCEPT
                      !.webhook_queue = Append(@, [webhook_id |-> id, retry_count |-> 0]),
                      !.queued = @ \cup {id}]
    /\ UNCHANGED <<baseVarsButDetection, lines, smells, source, metrics, embedding,
                   config_files, config, cli, safe, auto_save, listing>>

\* send_webhook(webhook_data) on the entry process_webhook_queue took from
\* the queue, with the response to the post and the state of the database.
SendWebhook(queue, logs, response, db_ok) ==
    LET webhook_data == Head(queue)
        rest == Tail(queue)
    IN  IF Delivered(response)
        THEN [webhook_queue |-> rest,
              webhook_logs |-> LogWebhookDelivery(logs, webhook_data.webhook_id, TRUE, db_ok)]
        ELSE IF webhook_data.retry_count < MaxRetries
        THEN [webhook_queue |->
                  Append(rest, [webhook_data EXCEPT !.retry_count = @ + 1]),
              webhook_logs |-> logs]
        ELSE [webhook_queue |-> rest,
              webhook_logs |-> LogWebhookDelivery(logs, webhook_data.webhook_id, FALSE, db_ok)]

\* One turn of the loop of process_webhook_queue with an entry in the queue.
ProcessWebhookQueue ==
    /\ webhook.webhook_queue # <<>>
    /\ \E response \in Responses, db_ok \in BOOLEAN :
          LET after == SendWebhook(webhook.webhook_queue, webhook.webhook_logs,
                                   response, db_ok)
              id == Head(webhook.webhook_queue).webhook_id
          IN  webhook' = [webhook EXCEPT
                             !.webhook_queue = after.webhook_queue,
                             !.webhook_logs = after.webhook_logs,
                             !.posts[id] = @ + 1]
    /\ UNCHANGED <<baseVarsButDetection, lines, smells, source, metrics, embedding,
                   config_files, config, cli, safe, auto_save, listing>>

NextWebhook ==
    \/ \E id \in WebhookIds : ProcessWebhookEvent(id)
    \/ ProcessWebhookQueue

SpecWebhook == InitMetrics /\ [][NextWebhook]_vars

-----------------------------------------------------------------------------
(* The cache store alone: arbitrary calls on a directory found at start *)

\* CacheManager.__init__
InitCache ==
    /\ enabled \in BOOLEAN
    /\ compression \in BOOLEAN
    /\ max_size_bytes \in Caps
    /\ clock = StartTime
    /\ \E found \in FoundStores :
          store = EnforceSizeLimit(CleanupOldCache(found, StartTime))
    /\ hist = <<NoCall, NoCall>>
    /\ disk = [f \in Files |-> [kind |-> "plain", mtime |-> 1]]
    /\ parallel = FALSE
    /\ NoThreads /\ NoDetection /\ NoAnalysis
    /\ IdleRun

CacheSet(k, v, h) ==
    /\ clock < StartTime + MaxOps
    /\ clock' = clock + 1
    /\ store' = Set(store, k, v, h, clock')
    /\ hist' = <<hist[2], Call("set", k, h, v, store[k], None)>>
    /\ UNCHANGED <<enabled, compression, max_size_bytes, runVars>>

CacheGet(k, h) ==
    /\ clock < StartTime + MaxOps
    /\ clock' = clock + 1
    /\ LET r == Get(store, k, h, clock')
       IN  /\ store' = r.store
           /\ hist' = <<hist[2], Call("get", k, h, None, store[k], r.result)>>
    /\ UNCHANGED <<enabled, compression, max_size_bytes, runVars>>

\* The bytes of a stored file are damaged outside the program. The gzip
\* failures need a compressed file.
Corrupt(k, kind) ==
    /\ clock < StartTime + MaxOps
    /\ store[k].kind = "ok"
    /\ kind \in {"badgzip", "zlib"} => compression
    /\ clock' = clock + 1
    /\ store' = [store EXCEPT ![k].kind = kind]
    /\ hist' = <<hist[2], Call("corrupt", k, NoHash, None, store[k], None)>>
    /\ UNCHANGED <<enabled, compression, max_size_bytes, runVars>>

NextCache ==
    \/ \E k \in Keys, v \in Values, h \in Hashes \cup {NoHash} : CacheSet(k, v, h)
    \/ \E k \in Keys, h \in Hashes \cup {NoHash} : CacheGet(k, h)
    \/ \E k \in Keys, kind \in CorruptKinds : Corrupt(k, kind)

SpecCache == InitCache /\ [][NextCache]_vars

-----------------------------------------------------------------------------
(* The size-cap sweep over three entries, with reads between the writes *)

SweepKeys == {"k1", "k2", "k3"}

\* The 'timestamp' set stores with each entry (0: never written), kept next
\* to the last call in hist.
NeverWritten == [k \in SweepKeys |-> 0]

\* CacheManager.__init__ on an empty directory.
InitSweep ==
    /\ enabled = TRUE
    /\ compression = TRUE
    /\ max_size_bytes = MaxValue
    /\ clock = StartTime
    /\ store = [k \in SweepKeys |-> NoEntry]
    /\ hist = <<NeverWritten, NoCall>>
    /\ disk = [f \in Files |-> [kind |-> "plain", mtime |-> 1]]
    /\ parallel = FALSE
    /\ NoThreads /\ NoDetection /\ NoAnalysis
    /\ IdleRun

SweepSet(k, v) ==
    /\ clock < StartTime + MaxOps + 1
    /\ clock' = clock + 1
    /\ store' = Set(store, k, v, NoHash, clock')
    /\ hist' = <<[hist[1] EXCEPT ![k] = clock'],
                 Call("set", k, NoHash, v, store[k], None)>>
    /\ UNCHANGED <<enabled, compression, max_size_bytes, runVars>>

SweepGet(k) ==
    /\ clock < StartTime + MaxOps + 1
    /\ clock' = clock + 1
    /\ LET r == Get(store, k, NoHash, clock')
       IN  /\ store' = r.store
           /\ hist' = <<hist[1], Call("get", k, NoHash, None, store[k], r.result)>>
    /\ UNCHANGED <<enabled, compression, max_size_bytes, runVars>>

NextSweep ==
    \/ \E k \in SweepKeys, v \in Values : SweepSet(k, v)
    \/ \E k \in SweepKeys : SweepGet(k)

SpecSweep == InitSweep /\ [][NextSweep]_vars

-----------------------------------------------------------------------------
(* Properties of the cache store (SpecCache) *)

Last == hist[2]
Prev == hist[1]

\* A get whose supplied hash disagrees with the hash of a well-formed entry.
MismatchingGet(c) ==
    /\ c.op = "get"
    /\ c.pre_kind = "ok"
    /\ Supplied(c.hash)
    /\ c.hash # c.pre_hash

SetThenGet ==
    /\ enabled
    /\ Prev.op = "set"
    /\ Last.op = "get"
    /\ Last.key = Prev.key
    /\ Last.hash = Prev.hash

\* C4 as stated: with the cache enabled, set(k,v,h) immediately followed by
\* get(k,h) returns v, for every key, value and hash.
C4_SetThenGetReturnsValue == SetThenGet => Last.result = Prev.value

\* C4 amended: with the cache enabled, set(k,v,h) immediately followed by
\* get(k,h) returns v whenever the entry written for v is not larger than the
\* size cap on its own.
C4_SetThenGetReturnsValueUnderCap ==
    (SetThenGet /\ Size(Prev.value) <= max_size_bytes) => Last.result = Prev.value

\* C4 witness: a set that evicted the other key's entry, followed by a get
\* that returns the value just written.
C4_Witness ==
    /\ SetThenGet
    /\ Supplied(Last.hash)
    /\ Last.result = Prev.value
    /\ \E k \in Keys \ {Last.key} : store[k] = NoEntry

\* C5: for an entry stored with hash h, get(k,h') with a supplied h' # h
\* returns a miss and removes the entry, and a following get(k,h) with the
\* original hash is a miss too.
C5_HashMismatchRemovesEntry ==
    enabled =>
        /\ MismatchingGet(Last) => (Last.result = None /\ store[Last.key] = NoEntry)
        /\ (MismatchingGet(Prev) /\ Last.op = "get" /\ Last.key = Prev.key
              /\ Last.hash = Prev.pre_hash) => Last.result = None

\* C5 witness: a mismatching get followed by a get with the original hash,
\* which misses.
C5_Witness ==
    /\ enabled
    /\ MismatchingGet(Prev)
    /\ Supplied(Prev.pre_hash)
    /\ Last.op = "get" /\ Last.key = Prev.key /\ Last.hash = Prev.pre_hash
    /\ Last.result = None
    /\ store[Last.key] = NoEntry

\* C6: get on an entry whose stored bytes cannot be deserialized returns a
\* miss and deletes the entry, whatever the deserialization failure is.
C6_UndeserializableEntryDeleted ==
    (enabled /\ Last.op = "get" /\ Last.pre_kind \in CorruptKinds)
        => (Last.result = None /\ store[Last.key] = NoEntry)

\* C7: after every set returns, the total size of the entries in the store
\* is at most the configured cap.
C7_TotalSizeUnderCapAfterSet ==
    (enabled /\ Last.op = "set") => TotalSize(store) <= max_size_bytes

\* C7 witness: two sets that each fit under the cap but not together; the
\* second evicted the entry of the first.
C7_Witness ==
    /\ enabled
    /\ Prev.op = "set" /\ Last.op = "set"
    /\ Prev.key # Last.key
    /\ Size(Prev.value) <= max_size_bytes
    /\ store[Prev.key] = NoEntry
    /\ store[Last.key].kind = "ok"
    /\ TotalSize(store) <= max_size_bytes

-----------------------------------------------------------------------------
(* Properties of analyze_project (Spec) *)

\* An analyze_project call has ended, by returning or by raising.
RunEnded == pc = "idle" /\ outcome # "none"

Failed(f) == file_outcome[f] \in {"parse_failed", "exception", "timeout"}

\* A structured report names the file: an entry of the errors list of the
\* results, or an ErrorReport of the analyzer's log.
Reported(f) ==
    \/ \E i \in 1..Len(results.errors) : results.errors[i].file = f
    \/ \E i \in 1..Len(errors) : errors[i].file_path = f

\* The warning-severity reports of the log that name the file.
Warnings(f) ==
    {i \in 1..Len(errors) : errors[i].file_path = f /\ errors[i].severity = "warning"}

\* C1: analyze_project always returns its results to the caller instead of
\* raising, whatever the project holds: also when files were analyzed and
\* the graph has nodes.
C1_RunAlwaysReturnsSummary == outcome # "raised"

\* C2: in sequential and in parallel mode, every file whose processing fails
\* (parse failure, exception, per-file timeout) is counted in files_failed,
\* and every enumerated file is processed.
C2_FailedFilesCounted ==
    RunEnded =>
        /\ results.files_failed = Cardinality({f \in Files : Failed(f)})
        /\ \A f \in Files : file_outcome[f] # "pending"

\* C3: after analyze_project, every enumerated file that contributed no node
\* to the graph is named by at least one structured report. (Stated for
\* files whose file ids differ, so that no node of one file replaces a node
\* of the other.)
C3_NoUnitImpliesReport ==
    (RunEnded /\ disk["a.py"].mtime # disk["lib/a.py"].mtime) =>
        \A f \in Files : Units(nodes, f) = {} => Reported(f)

\* C8: for an unchanged file, a run that hits the cache leaves the graph
\* with the same nodes for the file as the run that missed the cache and
\* analyzed it, and the child lists of these nodes resolve to nodes of the
\* graph. (Stated for files whose file ids differ.)
C8_CacheHitRestoresSameUnits ==
    (RunEnded /\ disk["a.py"].mtime # disk["lib/a.py"].mtime) =>
        \A f \in Files :
            file_outcome[f] = "hit" =>
                /\ Units(nodes, f) = miss_units[f]
                /\ \A n \in Units(nodes, f) :
                      \A i \in 1..Len(n.child_node_ids) : n.child_node_ids[i] \in DOMAIN nodes

\* C9: analyze_file_safe never raises outward: for every file and every
\* failure kind, failures inside a recovery strategy included, it returns a
\* tree with its text, or None.
C9_ParseNeverRaises == \A f \in Files : parse_log[f] # "raise"

\* C10: for a project of n files of which k exceed the size ceiling and the
\* others are valid, the run counts n-k files analyzed and 0 failed, each
\* oversized file has exactly one warning-severity report, and no oversized
\* file is read. (Stated for the first run of a graph in which no future
\* timed out, and for the results dictionary as it is when the call ends,
\* returned or not.)
Oversized == {f \in Files : disk[f].kind = "oversize"}
C10_OversizedSkippedUnread ==
    (/\ RunEnded
     /\ runs = 1
     /\ \A f \in Files : disk[f].kind \in {"plain", "cls", "oversize"}
     /\ \A f \in Files : file_outcome[f] # "timeout")
    => /\ results.files_analyzed = Cardinality(Files \ Oversized)
       /\ results.files_failed = 0
       /\ \A f \in Oversized : Cardinality(Warnings(f)) = 1
       /\ Oversized \cap read_files = {}

\* C15: the edges_created count of the results equals the number of edges
\* the run's dependency pass added to the edge table, and the nodes_created
\* count equals the number of nodes the run added to the node table.
\* (Stated for the first run of a graph, which starts with empty tables, when
\* no future timed out and the file ids differ.)
C15_CountsMatchTables ==
    (/\ RunEnded
     /\ runs = 1
     /\ disk["a.py"].mtime # disk["lib/a.py"].mtime
     /\ \A f \in Files : file_outcome[f] # "timeout")
    => /\ results.edges_created = TotalEdges(edges)
       /\ results.nodes_created = Cardinality(DOMAIN nodes)

\* C26: in parallel mode the dependency pass and the summary start only
\* after every submitted file task has resolved: when the pass starts no
\* task is still to run and to write to the node table and the file
\* registry, also in a run where a wait hit the per-file timeout.
C26_BarrierBeforeDependencies ==
    [][(pc = "files" /\ pc' = "save")
          => \A f \in Files : task[f].cur # "queued" /\ task[f].late = 0]_vars

-----------------------------------------------------------------------------
(* Properties of save_state and load_state (SpecPersist) *)

\* The last persistence call has returned and no run has started since.
AfterCall(op) == Last.op = op /\ pc = "idle" /\ Last.runs = runs

\* C11: save(path) followed by load(path) on a graph that was not modified
\* in between yields the same number of nodes and, for every node id, the
\* same content hash.
C11_SaveLoadRoundTrip ==
    (AfterCall("load") /\ Prev.op = "save" /\ Last.graph = Prev.graph)
        => GraphHashes(nodes) = Prev.graph

\* C12: load(path) does not abort because one node record is malformed: the
\* record is skipped, every well-formed node record of the file is restored,
\* and so are the edge table, the file registry and the history.
C12_LoadSkipsMalformedRecord ==
    AfterCall("load") =>
        LET file == StateFileRead(Last.files)
        IN  /\ \A id \in DOMAIN file.nodes :
                  Restorable(file.nodes[id]) =>
                      id \in DOMAIN nodes /\ nodes[id] = FromDict(file.nodes[id])
            /\ \A id \in DOMAIN nodes :
                  id \in DOMAIN file.nodes /\ Restorable(file.nodes[id])
            /\ edges = file.edges
            /\ file_registry = file.file_registry
            /\ metrics_history = file.metrics_history

\* C12 witness: a load of a file with a malformed record beside well-formed
\* ones, which restored nodes and edges.
C12_Witness ==
    /\ AfterCall("load")
    /\ \E id \in DOMAIN StateFileRead(Last.files).nodes :
          ~Restorable(StateFileRead(Last.files).nodes[id])
    /\ DOMAIN nodes # {}
    /\ DOMAIN edges # {}

\* C13: when save(path) is called with backups on and a previously saved
\* state exists for path, plain or compressed, that state is among the
\* backups afterwards, and at most backup_count backups are retained.
C13_BackupBeforeOverwrite ==
    /\ Len(state_file.backups) <= BackupCount
    /\ (AfterCall("save") /\ Last.arg /\ StateFileRead(Last.files) # NoState) =>
          \E i \in 1..Len(state_file.backups) :
              state_file.backups[i].state = StateFileRead(Last.files)

-----------------------------------------------------------------------------
(* Properties of the identity keys (SpecEdit) *)

\* C14: the identity key of every node of a file (file, class, function,
\* async function, method) is the same as long as the file is unchanged, and
\* is different after the file has been edited: no key given before the edit
\* is given again after it.
C14_IdsChangeOnEdit ==
    [][\A f \in Files :
          IF disk'[f] = disk[f] THEN IdsOf(f)' = IdsOf(f)
          ELSE IdsOf(f)' \cap IdsOf(f) = {}]_vars

-----------------------------------------------------------------------------
(* Properties of the history and of the error log (SpecHistory) *)

\* C16: the in-memory history of run summaries is bounded: after any number
\* of analyze_project runs on one graph it holds at most 100 entries.
C16_HistoryBounded == Len(metrics_history) <= HistoryLimit

NoDuplicates(list) == \A i, j \in 1..Len(list) : list[i] = list[j] => i = j

\* C19: the error summary agrees with the error log: the total is the number
\* of reports, the counts by kind and the counts by severity each sum to the
\* total, the failed-file list holds every reported path exactly once, and
\* the sample holds min(total, 100) reports.
C19_ErrorSummaryConsistent ==
    LET s == GetErrorSummary(errors)
    IN  /\ s.total_errors = Len(errors)
        /\ SumOver(s.error_types, DOMAIN s.error_types) = s.total_errors
        /\ SumOver(s.severity_counts, DOMAIN s.severity_counts) = s.total_errors
        /\ NoDuplicates(s.failed_files)
        /\ Range(s.failed_files) = {errors[i].file_path : i \in 1..Len(errors)}
        /\ Len(s.errors) = IF Len(errors) < 100 THEN Len(errors) ELSE 100

\* C19 witness: a log of more than 100 reports of two kinds and two
\* severities, naming each of two files many times.
C19_Witness ==
    /\ Len(errors) > 100
    /\ Cardinality({errors[i].error_type : i \in 1..Len(errors)}) = 2
    /\ Cardinality({errors[i].severity : i \in 1..Len(errors)}) = 2
    /\ Cardinality({errors[i].file_path : i \in 1..Len(errors)}) = 2
    /\ Len(GetErrorSummary(errors).errors) = 100

-----------------------------------------------------------------------------
(* Properties of the duplicate-code detector (SpecDup) *)

\* The 0-based offsets at which a block of five lines of the code starts (the
\* empty element split leaves after a final newline is not a line).
Offsets == {i \in 0..Len(lines) : i + MinBlockSize <= Len(lines) /\ lines[i + MinBlockSize] # ""}

\* C20: for an identical 5-line block at two offsets of a file, also when the
\* second block ends on the last line of the file, the later occurrence is
\* reported with 'duplicate of' equal to the 1-based start line of the
\* earliest occurrence.
C20_LaterBlockReported ==
    \A i, j \in Offsets :
        (/\ i < j
         /\ Block(lines, i) = Block(lines, j)
         /\ \A h \in Offsets : h < i => Block(lines, h) # Block(lines, i))
        => \E n \in 1..Len(smells) :
              smells[n].line = j + 1 /\ smells[n].duplicate_of = i + 1

-----------------------------------------------------------------------------
(* Properties of concurrent cache calls (SpecConc) *)

Done(t, op) == thr[t].op = op /\ thr[t].pc = "done"

\* C17: a get(k, h) that runs concurrently with a set(k, v, h) returns a miss
\* or a complete value (v, or the one stored before the set), raises nothing,
\* and does not cause the entry of the set to be lost: when both calls have
\* returned the directory holds v under k.
C17_GetSetSafe ==
    \A g, s \in Threads :
        (/\ Done(g, "get") /\ Done(s, "set")
         /\ thr[g].hash = thr[s].hash)
        => /\ thr[g].ret \in {None, thr[s].value, FoundFile(0).value}
           /\ store[ConcKey].kind = "ok"
           /\ store[ConcKey].value = thr[s].value

\* C18: clear is atomic with respect to the other cache calls: when it has
\* returned the directory exists and is empty, except for the whole entry of
\* a concurrent set, and no other call has found the directory missing.
C18_ClearAtomic ==
    \A c, o \in Threads :
        (Done(c, "clear") /\ c # o /\ thr[o].pc = "done")
        => /\ cache_dir
           /\ \/ Present(store) = {}
              \/ /\ thr[o].op = "set"
                 /\ store[ConcKey] = Dump(thr[o].value, thr[o].hash, clock)
           /\ thr[o].log # "FileNotFoundError"
           /\ thr[o].op = "get_info" => thr[o].ret.enabled

-----------------------------------------------------------------------------
(* Properties of the metrics (SpecMetrics) *)

Analyzed == source # <<>>

\* The branch constructs of a tree: conditionals, loops, exception handlers,
\* context blocks, asserts and raises.
BranchConstructs(tree) ==
    Cardinality({i \in 1..Len(tree) :
        tree[i].type \in {"If", "While", "For", "AsyncFor", "ExceptHandler",
                          "With", "AsyncWith", "Assert", "Raise"}})

\* C21: for every syntactically valid input the cyclomatic complexity
\* analyze_code returns is at least 1 and equals 1 plus the number of branch
\* constructs plus (operands - 1) per boolean expression plus the number of
\* comprehension filter clauses.
C21_CyclomaticFormula ==
    (Analyzed /\ source.parse = "ok")
    => LET tree == source.tree
           extra(i) == CASE tree[i].type = "BoolOp" -> tree[i].n - 1
                         [] tree[i].type = "comprehension" -> tree[i].n
                         [] OTHER -> 0
       IN  /\ metrics.cyclomatic_complexity >= 1
           /\ metrics.cyclomatic_complexity =
                 1 + BranchConstructs(tree)
                   + (IF Len(tree) >= 1 THEN extra(1) ELSE 0)
                   + (IF Len(tree) >= 2 THEN extra(2) ELSE 0)

\* C22: the maintainability index analyze_code returns lies in [0, 100] for
\* every input, including empty text, text that fails to parse, a zero
\* Halstead volume and zero logical lines.
C22_IndexWithinRange ==
    Analyzed => metrics.maintainability_index >= 0 /\ metrics.maintainability_index <= 100000

\* C22 witness: an input whose index is cut at 100 (text without logical
\* lines that fails to parse) or at 0 (a large volume and many lines).
C22_Witness ==
    /\ Analyzed
    /\ \/ /\ source.parse = "SyntaxError" /\ source.logical = 0
          /\ RawIndex(metrics) > 100000 /\ metrics.maintainability_index = 100000
       \/ /\ metrics.volume >= 500000 /\ RawIndex(metrics) < 0
          /\ metrics.maintainability_index = 0

-----------------------------------------------------------------------------
(* Properties of the embedding resize (SpecEmbedding) *)

\* C23: the output of a resize to width w has exactly w entries; a source of
\* n < w entries is kept unchanged at its indices; from a source of n > w
\* entries the selected indices are non-decreasing, evenly spaced (two gaps
\* differ by at most one), start at 0 and end at n - 1.
C23_ResizeKeepsOrSpreads ==
    LET n == Len(embedding.source)
        w == embedding.width
        ix == embedding.indices
    IN  embedding # NoEmbedding =>
        /\ Len(embedding.output) = w
        /\ n < w => \A i \in 1..n : embedding.output[i] = embedding.source[i]
        /\ n > w =>
            /\ Len(ix) = w /\ ix[1] = 0 /\ ix[w] = n - 1
            /\ \A j \in 1..(w - 1) : ix[j] <= ix[j + 1]
            /\ \A j, k \in 1..(w - 1) :
                  (ix[j + 1] - ix[j]) - (ix[k + 1] - ix[k]) \in {-1, 0, 1}
            /\ \A j \in 1..w : embedding.output[j] = embedding.source[ix[j] + 1]

\* C23 witness: a vector of six entries, not all alike, compressed to four.
C23_Witness ==
    /\ Len(embedding.source) = 6 /\ embedding.width = 4
    /\ embedding.indices = <<0, 1, 3, 5>>
    /\ embedding.source[1] # embedding.source[6]

-----------------------------------------------------------------------------
(* Properties of the configuration discovery (SpecConfig) *)

\* The candidates that load: the first of them, or 0.
FirstGood ==
    LET good == {i \in 1..Len(CONFIG_FILENAMES) : config_files[i] = "good"}
    IN  IF good = {} THEN 0 ELSE CHOOSE i \in good : \A j \in good : i <= j

\* C24: ConfigurationManager() without a path always succeeds: the candidate
\* files are tried in the order of the list, a candidate that fails to load
\* or to validate leaves the configuration at the defaults and the discovery
\* goes on with the next one, and the first candidate that loads ends it.
C24_DiscoveryTakesFirstGood ==
    /\ ~config.raised
    /\ config.loaded = 0 => config.values = DefaultValues
    /\ config.loaded = 0 => \A i \in 1..(config.next - 1) : config_files[i] # "good"
    /\ config.next > Len(CONFIG_FILENAMES) =>
          /\ config.loaded = FirstGood
          /\ FirstGood # 0 => config.values = UserConfig(FirstGood, "good")

\* C24 witness: the discovery has passed a broken and an invalid candidate
\* and has loaded a later one, with a further good file left untried.
C24_Witness ==
    /\ config.loaded >= 3
    /\ \E i, j \in 1..(config.loaded - 1) :
          config_files[i] = "broken" /\ config_files[j] = "invalid"
    /\ \E k \in (config.loaded + 1)..Len(CONFIG_FILENAMES) : config_files[k] = "good"
    /\ config.values.max_workers = config.loaded

-----------------------------------------------------------------------------
(* Properties of the command line (SpecCli) *)

\* The text is a JSON object whose 'ok' member is true.
OkObject(text) ==
    /\ text.json = "object"
    /\ "ok" \in DOMAIN text.members
    /\ text.members["ok"] = [json |-> "true"]

Analyzed0 == cli.argv # <<>> /\ cli.argv.cmd = "analyze" /\ cli.pc = "done"

\* C25: 'analyze <path> -o <file>' writes the result to <file> as a JSON
\* object whose 'ok' field is true, prints nothing of it and exits with
\* status 0; without -o the same JSON is printed to stdout.
C25_AnalyzeWritesJson ==
    /\ (Analyzed0 /\ cli.argv.out \in {"out.json", "b.json"}) =>
          /\ cli.file = <<JsonDumps(Analyze0(cli.argv.path))>>
          /\ OkObject(cli.file[1])
          /\ cli.stdout = <<>>
          /\ cli.status = 0
    /\ (Analyzed0 /\ cli.argv.out = "") =>
          /\ cli.stdout = <<JsonDumps(Analyze0(cli.argv.path))>>
          /\ OkObject(cli.stdout[1])
          /\ cli.file = cli.argv.old
          /\ cli.status = 0

\* C25 witness: analyze proj -o out.json has replaced an earlier out.json.
C25_Witness ==
    /\ Analyzed0 /\ cli.argv.out = "out.json" /\ cli.argv.old # <<>>
    /\ cli.res.project.v = "proj"
    /\ Len(cli.file) = 1 /\ OkObject(cli.file[1])

-----------------------------------------------------------------------------
(* Properties of analyze_file_safe and its parse worker (SpecParse) *)

ReportsOf(f, type) ==
    Cardinality({i \in 1..Len(errors) :
                    errors[i].file_path = f /\ errors[i].error_type = type})

\* C27: when the parse of a file fails with a syntax failure, the syntax
\* recovery strategy is attempted before the file is given up, and each
\* strategy runs only for its own failure kind.
C27_SyntaxRecoveryAttempted ==
    /\ (safe.pc = "done" /\ safe.file # "" /\ disk[safe.file].kind = "syntax")
          => "SyntaxError" \in safe.attempted
    /\ \A s \in safe.attempted : s = safe.exc

\* C29: when the parse worker has not finished within the timeout, parse
\* returns none and exactly one timeout report is appended for the file; the
\* late result of the abandoned worker is never returned or used.
C29_TimeoutAbandonsWorker ==
    safe.timed_out =>
        /\ safe.pc = "done" /\ safe.ret = "none"
        /\ ReportsOf(safe.file, "TimeoutError") = 1
        /\ safe.worker = "finished" => Len(safe.queue) = 1

\* C29 witness: the worker abandoned on a timeout has ended and its result
\* lies unread on the queue.
C29_Witness ==
    /\ safe.timed_out /\ safe.worker = "finished"
    /\ safe.queue = <<WorkerResult("slow")>>
    /\ safe.ret = "none"

-----------------------------------------------------------------------------
(* Properties of the size-cap sweep (SpecSweep) *)

\* The entry of k was in the directory when the sweep of this set ran.
InSweep(k) == store[k].kind # "absent" \/ hist'[2].key = k

\* C28: the size-cap sweep evicts in write-time order: whenever an entry is
\* evicted, every entry written earlier than it has been evicted too,
\* whatever entries were read with get in between.
C28_SweepEvictsInWriteOrder ==
    [][hist'[2].op = "set" =>
          \A k \in SweepKeys, j \in SweepKeys :
              (/\ InSweep(k) /\ store'[k].kind = "absent"
               /\ InSweep(j) /\ hist'[1][j] < hist'[1][k])
                 => store'[j].kind = "absent"]_vars

-----------------------------------------------------------------------------
(* Properties of the error log over several runs (SpecHistory) *)

\* The analysis of f in the current call appended an ErrorReport.
ReportedInRun(f) == file_outcome[f] \in {"parse_failed", "skipped"}

\* C30: the ErrorReport log is per run: the error summary available after an
\* analyze_project call holds only reports produced during that call, also
\* when an earlier call on the same graph recorded errors.
C30_ErrorLogPerRun ==
    (pc = "idle" /\ outcome # "none") =>
        LET summary == GetErrorSummary(errors)
        IN  /\ \A i \in 1..Len(summary.failed_files) :
                  ReportedInRun(summary.failed_files[i])
            /\ summary.total_errors <= Cardinality({f \in Files : ReportedInRun(f)})

-----------------------------------------------------------------------------
(* Properties of the dependency pass (Spec) *)

\* C31: every edge the dependency pass adds goes from a unit to a different
\* unit, and both ends are ids of the node table at the time it is added;
\* the same pair may get several edges.
C31_EdgesJoinDistinctNodes ==
    [][\A p \in DOMAIN edges' :
          (p \notin DOMAIN edges \/ edges'[p] > edges[p])
             => /\ p[1] # p[2]
                /\ p[1] \in DOMAIN nodes
                /\ p[2] \in DOMAIN nodes]_vars

\* C31 witness: two passes over the same nodes have put two edges between
\* one pair of different units.
C31_Witness ==
    \E p \in DOMAIN edges :
        /\ edges[p] >= 2
        /\ p[1] # p[2]
        /\ p[1] \in DOMAIN nodes /\ p[2] \in DOMAIN nodes

-----------------------------------------------------------------------------
(* Properties of _auto_save (SpecAutoSave) *)

\* C32: at the end of analyze_project the state is saved if and only if
\* auto-save is enabled and at least the configured interval has passed
\* since the last auto-save (or since construction); when it is saved the
\* last-save time becomes the current time, otherwise nothing is written and
\* the last-save time stays.
C32_AutoSaveWhenDue ==
    [][(pc = "save" /\ pc' = "summary") =>
          IF /\ auto_save.auto_save_enabled
             /\ auto_save.time - auto_save.last_save_time >= SaveIntervalSeconds
          THEN /\ auto_save'.saves = auto_save.saves + 1
               /\ state_file' = SaveState(TRUE)
               /\ auto_save'.last_save_time = auto_save.time
          ELSE /\ auto_save'.saves = auto_save.saves
               /\ state_file' = state_file
               /\ auto_save'.last_save_time = auto_save.last_save_time]_vars

\* C32 witness: a first run ended before the interval had passed and wrote
\* nothing; a later run ended exactly one interval after construction and
\* saved.
C32_Witness ==
    /\ runs >= 2
    /\ pc = "summary"
    /\ auto_save.saves = 1
    /\ auto_save.last_save_time = SaveIntervalSeconds
    /\ auto_save.time = SaveIntervalSeconds
    /\ state_file # NoStateFiles

-----------------------------------------------------------------------------
(* Properties of _get_python_files (SpecFiles) *)

\* The test indicators, the globs and the excluded names applied to the path
\* below the root.
ListedByRelativePath(r, l) ==
    /\ \A i \in 1..(Len(r) - 1) : r[i] \notin ExcludedDirs
    /\ \A pattern \in l.excluded_files : ~PathMatch(r, pattern)
    /\ l.follow_symlinks \/ r \notin l.symlinks
    /\ l.include_tests \/ \A ind \in TestIndicators : ~In(ind, Lower(Tail(PathStr(r))))

\* C33: the enumeration returns the files in sorted order, and a source file
\* under the root is listed iff no directory below the root on its path has
\* an excluded name, no exclude glob matches it, it is not a symlink while
\* symlinks are not followed, and it is not a test file while tests are
\* excluded, whatever the directories above the root are called.
C33_ListingDependsOnRelativePath ==
    listing.called =>
        LET l == listing.settings
            files == listing.files
        IN  /\ \A i \in 1..Len(files), j \in 1..Len(files) :
                  i < j => PathLess(files[i], files[j])
            /\ \A r \in l.tree :
                  (l.root \o r \in Range(files)) <=> ListedByRelativePath(r, l)

-----------------------------------------------------------------------------
(* Properties of _detect_code_smells (SpecSmells) *)

ComplexFunction(node) ==
    /\ node.type = "FunctionDef"
    /\ CyclomaticComplexity(node.body, Len(node.body)) > CyclomaticThreshold

\* C34: for every function whose cyclomatic complexity exceeds the
\* threshold the smells list holds an excessive-complexity finding for that
\* function, beside any long-function or too-many-parameters finding for it.
C34_ComplexFunctionReported ==
    lines # <<>> =>
        \A i \in 1..Len(source) :
            ComplexFunction(source[i]) =>
                \E n \in 1..Len(smells) :
                    smells[n] = NodeSmell("complex_function", i)

-----------------------------------------------------------------------------
(* Properties of the parallel run (Spec) *)

\* The parse of every file has one outcome, and no wait of the current call
\* has timed out.
OneOutcome ==
    /\ \A f \in Files : disk[f].kind # "memerr"
    /\ \A f \in Files : file_outcome[f] # "timeout"

\* What the sequential loop leaves for one file on a graph that held table
\* and registry before: the nodes _analyze_file writes and the ids it
\* registers (nothing for a file that yields no tree or whose analysis
\* raises).
AfterFile(g, f) ==
    IF disk[f].kind \notin {"plain", "cls"} THEN g
    ELSE LET text == disk[f].kind
             file_node == CreateNode(FileId(f), "file", text,
                                     Chars("File: ") \o Chars(f), f, NoId,
                                     UNION {AllCalls(d) : d \in Range(Tree(text))})
             ex == ExtractCodeElements(Tree(text), f, file_node.code_id)
             list == <<file_node>> \o ex.list
         IN  [nodes |-> Put(Put(g.nodes, {file_node}), ex.added),
              file_registry |->
                  [g.file_registry EXCEPT ![f] = [i \in 1..Len(list) |-> list[i].code_id]]]

RECURSIVE AfterFiles(_, _)
AfterFiles(g, fs) ==
    IF fs = <<>> THEN g ELSE AfterFiles(AfterFile(g, Head(fs)), Tail(fs))

\* The graph a sequential first run over the files leaves.
SequentialGraph ==
    AfterFiles([nodes |-> NoNodes, file_registry |-> [f \in Files |-> <<>>]],
               GetPythonFiles)

\* C35: for a fixed set of files and an empty cache, the node table and the
\* file registry after a parallel run equal those after a sequential run,
\* in whatever order the worker tasks complete.
C35_ParallelEqualsSequential ==
    (runs = 1 /\ pc = "save" /\ OneOutcome) =>
        /\ nodes = SequentialGraph.nodes
        /\ file_registry = SequentialGraph.file_registry

\* C36: two different files of one project never get the same file-unit
\* id, so the analysis of one file never replaces the file node of another
\* in the node table, also for files of the same base name in different
\* directories with equal modification times.
C36_FileIdsDistinct ==
    \A f \in Files, g \in Files :
        (f # g /\ file_registry[f] # <<>> /\ file_registry[g] # <<>>) =>
            /\ file_registry[f][1] # file_registry[g][1]
            /\ file_registry[f][1] \in DOMAIN nodes
            /\ nodes[file_registry[f][1]].file_path = f

\* C37: in parallel mode a file counted in files_failed because the wait
\* for its result timed out leaves no node in the node table and no entry in
\* the file registry or the cache, neither before nor after the call has
\* returned (first call, on an empty graph and an empty cache).
C37_TimedOutFileLeavesNothing ==
    \A f \in Files :
        (runs = 1 /\ file_outcome[f] = "timeout") =>
            /\ \A id \in DOMAIN nodes : nodes[id].file_path # f
            /\ file_registry[f] = <<>>
            /\ store[CacheKey(f)] = NoEntry

-----------------------------------------------------------------------------
(* Properties of the node table and the registry over edits (SpecEdit) *)

\* C38: after any sequence of analyze_project calls, re-analysis of an
\* edited file included, the node table and the file registry agree: every
\* node of the table is listed in the registry entry of its file and every
\* id of a registry entry is a key of the table, so that no unit of a
\* superseded version of a file remains.
C38_TableAndRegistryAgree ==
    (pc = "idle" /\ outcome # "none") =>
        /\ \A id \in DOMAIN nodes :
              \E i \in 1..Len(file_registry[nodes[id].file_path]) :
                  file_registry[nodes[id].file_path][i] = id
        /\ \A f \in Files : \A i \in 1..Len(file_registry[f]) :
              file_registry[f][i] \in DOMAIN nodes

-----------------------------------------------------------------------------
(* Properties of load_state after saves of either kind (SpecPersist) *)

\* The file the save recorded as call c wrote, among the files f.
WrittenBy(c, f) == IF c.compression THEN f.gz ELSE f.plain

\* C39: load(path) restores the state written by the most recent save(path),
\* whatever the compression setting of that save and of the saves before it
\* was: a plain save made after a compressed one is the one that is loaded.
C39_LoadReadsLatestSave ==
    (AfterCall("load") /\ Prev.op = "save") =>
        /\ StateFileRead(Last.files) = WrittenBy(Prev, Last.files)
        /\ DOMAIN nodes = DOMAIN WrittenBy(Prev, Last.files).nodes

-----------------------------------------------------------------------------
(* Properties of the webhook queue (SpecWebhook) *)

InQueue(id) ==
    \E i \in 1..Len(webhook.webhook_queue) : webhook.webhook_queue[i].webhook_id = id

LogRecords(id) ==
    Cardinality({i \in 1..Len(webhook.webhook_logs) :
                    webhook.webhook_logs[i].webhook_id = id})

\* C40: webhook delivery retries are bounded: every queued webhook is sent
\* at most 4 times (one attempt and three retries), its retry count only
\* grows (it is the number of sends made), and it ends with exactly one
\* delivery-log record, after which it is never queued again.
C40_RetriesBoundedOneRecord ==
    \A id \in webhook.queued :
        /\ webhook.posts[id] <= MaxRetries + 1
        /\ \A i \in 1..Len(webhook.webhook_queue) :
              webhook.webhook_queue[i].webhook_id = id
                 => webhook.webhook_queue[i].retry_count = webhook.posts[id]
        /\ LogRecords(id) <= 1
        /\ LogRecords(id) = 1 => ~InQueue(id)
        /\ ~InQueue(id) => LogRecords(id) = 1

====
